---- MODULE Spec2Model ----
(***************************************************************************)
(* A model of the execution engine of full-self-coding:                    *)
(*   - TaskSolverManager (src/src/taskSolverManager.ts), the scheduler;     *)
(*   - TaskSolver.solve  (src/src/taskSolver.ts), one solver's protocol;    *)
(*   - CodeCommitter     (src/src/codeCommitter.ts), the patch committer.   *)
(* Each component has its own specification (SpecManager, SpecSolver,       *)
(* SpecCommitter); the variables of the other components stay frozen.       *)
(***************************************************************************)
EXTENDS Integers, Sequences, FiniteSets, TLC

\* ------------------------------------------------------------------------
\* Bounds of the model
\* ------------------------------------------------------------------------
MaxTasks == 3
MaxParallel == 2
MaxProvisioning == 2

\* ------------------------------------------------------------------------
\* Values
\* ------------------------------------------------------------------------
TaskIDs == {"A", "B"}
Priorities == {1}
ErrorTexts == {"Task 1 failed"}

NOT_STARTED == "not_started"
SUCCESS == "success"
SKIPPED == "skipped"
FAILURE == "failure"

\* the statuses a solver that resolved may hold in its taskResult (the model
\* draws them from this set)
ResolvedStatuses == {SUCCESS, FAILURE}

\* the followingTasks the analyzer gives a task: A names B as its successor
FollowingTasks(id) == IF id = "A" THEN <<"B">> ELSE <<>>

\* A Task as addTask receives it (task.ts: ID, priority, followingTasks;
\* title and description are carried along unchanged and are not modelled
\* here).
Task == {[ID |-> id, priority |-> p, followingTasks |-> FollowingTasks(id)] :
            id \in TaskIDs, p \in Priorities}

VARIABLES
    \* ---- TaskSolverManager ----
    tasks,                        \* the Task objects handed to addTask, in order (a task reference is its index)
    taskQueue,                    \* this.taskQueue: sequence of task references
    activeTasks,                  \* this.activeTasks: Map<string, TaskSolver>, a function ID -> solver reference
    completedTasks,               \* this.completedTasks: sequence of TaskResult
    maxParallelDockerContainers,  \* this.maxParallelDockerContainers
    mgrPc,                        \* position of start(): idle, inner, sleep, done
    solvers,                      \* per task reference: the promises of solve() and of startTask(), the solver's own status, the error
    clock,                        \* Date.now()
    \* ---- TaskSolver (one solver and its DockerInstance) ----
    svIn,                         \* the inputs of solve(): task, shutdown flag, host files, agent type, command list
    svPc,                         \* position of solve()
    svCmd,                        \* index of the next provisioning command of commandArray
    containerName,                \* DockerInstance.containerName (NULL until startContainer)
    container,                    \* the container in the docker runtime: absent, running, removed
    taskResult,                   \* TaskSolver.taskResult
    svPromise,                    \* the promise of solve(): pending, resolved, rejected (with the error text)
    shutdownCalls,                \* number of shutdownContainer() calls made by solve()
    svLog,                        \* the docker operations solve() has issued, in order
    \* ---- CodeCommitter and its git repository ----
    ccIn,                         \* the inputs: taskResults, gitStateOptions, the repository as it was found
    repo,                         \* the git repository at gitRepoPath
    originalGitNode,              \* this.originalGitNode
    stashedChanges,               \* this.stashedChanges
    ccPc,                         \* position of commitAllChanges(): loop, returned
    ccIdx,                        \* index of the next TaskResult of the for loop
    ccAcc,                        \* the locals results, successfulTasks, failedTasks
    summary,                      \* the value commitAllChanges() returned
    \* ---- DockerInstance.runCommands ----
    dkIn,                         \* the arguments: commands (with what each does when run), timeoutSeconds
    dkPc,                         \* position of runCommands(): call, loop, returned, thrown
    dkIdx,                        \* index of the next command of the for loop
    dkRes,                        \* the locals output, error, success, status
    dkRan,                        \* the docker exec processes spawned so far, with their exit codes
    dkElapsed,                    \* wall-clock seconds since the call
    \* ---- ConfigReader ----
    cfIn,                         \* what the reader finds: the user file, the project file, the FSC_* environment
    cfPc,                         \* position of the call: call, returned
    cfOut,                        \* the operation called and the Config it returned
    \* ---- analyzeCodebase and main ----
    azIn,                         \* the arguments and what the agent left in /app/tasks.json
    azPc,                         \* position of analyzeCodebase()
    azName,                       \* containerName of the analyzer's DockerInstance
    azContainer,                  \* the analyzer's container: absent, running, removed
    azTasks,                      \* the local tasks
    azPromise,                    \* the promise of analyzeCodebase()
    azShutdownCalls,              \* number of shutdownContainer() calls made by analyzeCodebase()
    azLog,                        \* the docker operations analyzeCodebase() has issued, in order
    mainPc,                       \* position of main(): none, analyze, manage, failed
    \* ---- the JSON extractor ----
    txIn,                         \* the object the agent serialized, the text before it and after it
    txPc,                         \* position of the call: call, returned
    txOut,                        \* what the extraction returned: the object, or a parse error
    \* ---- DockerInstance handles and the docker runtime ----
    runtime,                      \* the containers that exist: a function from name to the handle that created it
    hName,                        \* per handle: this.containerName
    hStarted,                     \* per handle: startContainer has been called on it
    calls,                        \* number of method calls made so far
    lastCall,                     \* the last method call: handle, method, outcome, the docker commands it issued
    \* ---- WorkflowOrchestrator.processRequirement ----
    wfIn,                         \* what the collaborators of one processRequirement(requirement) call do
    wfPc,                         \* position of processRequirement
    context,                      \* its WorkflowContext
    wfSettled,                    \* how the call settled: "none", "returned" or "threw"
    \* ---- the Orchestrator ----
    cancelled                     \* the Orchestrator has signalled cancellation

mgrVars == <<tasks, taskQueue, activeTasks, completedTasks,
             maxParallelDockerContainers, mgrPc, solvers>>

svVars == <<svIn, svPc, svCmd, containerName, container, taskResult, svPromise,
            shutdownCalls, svLog>>

ccVars == <<ccIn, repo, originalGitNode, stashedChanges, ccPc, ccIdx, ccAcc, summary>>

dkVars == <<dkIn, dkPc, dkIdx, dkRes, dkRan, dkElapsed>>

cfVars == <<cfIn, cfPc, cfOut>>

txVars == <<txIn, txPc, txOut>>

hdVars == <<runtime, hName, hStarted, calls, lastCall>>

wfVars == <<wfIn, wfPc, context, wfSettled>>

azVars == <<azIn, azPc, azName, azContainer, azTasks, azPromise, azShutdownCalls, azLog, mainPc>>

vars == <<tasks, taskQueue, activeTasks, completedTasks,
          maxParallelDockerContainers, mgrPc, solvers, clock,
          svIn, svPc, svCmd, containerName, container, taskResult, svPromise,
          shutdownCalls, svLog,
          ccIn, repo, originalGitNode, stashedChanges, ccPc, ccIdx, ccAcc, summary,
          dkIn, dkPc, dkIdx, dkRes, dkRan, dkElapsed,
          cfIn, cfPc, cfOut,
          azIn, azPc, azName, azContainer, azTasks, azPromise, azShutdownCalls, azLog, mainPc,
          txIn, txPc, txOut,
          runtime, hName, hStarted, calls, lastCall,
          wfIn, wfPc, context, wfSettled,
          cancelled>>

NULL == "null"

\* ------------------------------------------------------------------------
\* TaskSolverManager
\* ------------------------------------------------------------------------

\* constructor: config.maxParallelDockerContainers || 1   (0 stands for unset)
EffectiveMaxParallel(configured) == IF configured = 0 THEN 1 ELSE configured

NoSolver == [solve |-> "none", startTask |-> "none", status |-> NOT_STARTED, msg |-> <<>>, at |-> 0]

InitManager ==
    /\ tasks = <<>>
    /\ taskQueue = <<>>
    /\ activeTasks = <<>>
    /\ completedTasks = <<>>
    /\ \E c \in 0..MaxParallel : maxParallelDockerContainers = EffectiveMaxParallel(c)
    /\ mgrPc = "idle"
    /\ solvers = <<>>
    /\ clock = 1

\* Map.size
MapSize(m) == Cardinality(DOMAIN m)

\* Map.set(key, value)
MapSet(m, key, value) ==
    [k \in (DOMAIN m) \cup {key} |-> IF k = key THEN value ELSE m[k]]

\* Map.delete(key)
MapDelete(m, key) == [k \in (DOMAIN m) \ {key} |-> m[k]]

\* addTask(task): this.taskQueue.push(task)
AddTask(task) ==
    /\ mgrPc = "idle"
    /\ Len(tasks) < MaxTasks
    /\ tasks' = Append(tasks, task)
    /\ taskQueue' = Append(taskQueue, Len(tasks) + 1)
    /\ solvers' = Append(solvers, NoSolver)
    /\ UNCHANGED <<activeTasks, completedTasks, maxParallelDockerContainers, mgrPc, clock>>

\* for comparison: the loop of start() tests the queue alone
OuterCondition_QueueOnly == Len(taskQueue) > 0

\* while (this.taskQueue.length > 0 || this.activeTasks.size > 0)
OuterCondition == Len(taskQueue) > 0 \/ MapSize(activeTasks) > 0

\* start() is called: the first test of the outer loop
StartCall ==
    /\ mgrPc = "idle"
    /\ mgrPc' = IF OuterCondition THEN "inner" ELSE "done"
    /\ UNCHANGED <<tasks, taskQueue, activeTasks, completedTasks,
                   maxParallelDockerContainers, solvers, clock>>

\* while (this.activeTasks.size < this.maxParallelDockerContainers && this.taskQueue.length > 0)
InnerCondition ==
    MapSize(activeTasks) < maxParallelDockerContainers /\ Len(taskQueue) > 0

\* for comparison: the inner loop takes the last task of the queue (pop)
Dispatch_LastFirst ==
    /\ mgrPc = "inner"
    /\ InnerCondition
    /\ LET t == taskQueue[Len(taskQueue)] IN
        /\ taskQueue' = SubSeq(taskQueue, 1, Len(taskQueue) - 1)
        /\ activeTasks' = MapSet(activeTasks, tasks[t].ID, t)
        /\ solvers' = [solvers EXCEPT ![t] =
                          [solve |-> "pending", startTask |-> "pending", status |-> NOT_STARTED,
                           msg |-> <<>>, at |-> 0]]
    /\ UNCHANGED <<tasks, completedTasks, maxParallelDockerContainers, mgrPc, clock>>

\* startTask(task) up to its first await: the solver is constructed,
\* registered under task.ID, and solve() is in flight.
Dispatch ==
    /\ mgrPc = "inner"
    /\ InnerCondition
    /\ LET t == Head(taskQueue) IN
        /\ taskQueue' = Tail(taskQueue)
        /\ activeTasks' = MapSet(activeTasks, tasks[t].ID, t)
        /\ solvers' = [solvers EXCEPT ![t] =
                          [solve |-> "pending", startTask |-> "pending", status |-> NOT_STARTED,
                           msg |-> <<>>, at |-> 0]]
    /\ UNCHANGED <<tasks, completedTasks, maxParallelDockerContainers, mgrPc, clock>>

\* the inner loop ends; await new Promise(resolve => setTimeout(resolve, 1000))
InnerExit ==
    /\ mgrPc = "inner"
    /\ ~InnerCondition
    /\ mgrPc' = "sleep"
    /\ UNCHANGED <<tasks, taskQueue, activeTasks, completedTasks,
                   maxParallelDockerContainers, solvers, clock>>

\* the one-second timer fires: the next test of the outer loop
Wake ==
    /\ mgrPc = "sleep"
    /\ mgrPc' = IF OuterCondition THEN "inner" ELSE "done"
    /\ UNCHANGED <<tasks, taskQueue, activeTasks, completedTasks,
                   maxParallelDockerContainers, solvers, clock>>

\* taskSolver.getResult() after solve() resolved: the solver's taskResult,
\* { ...task, status, report, completedAt } as solve() left it.
GetResult(task, status, at) ==
    [ID |-> task.ID, priority |-> task.priority, status |-> status,
     report |-> <<"agent report">>, completedAt |-> at]

\* for comparison: the catch block records the failure without the error's message
CatchResult_NoMessage(task, message, at) ==
    [ID |-> task.ID, priority |-> task.priority, status |-> FAILURE,
     report |-> <<"Error solving task: ">>, completedAt |-> at]

\* the catch block of startTask:
\* { ...task, status: FAILURE, report: `Error solving task: ${message}`, completedAt: Date.now() }
CatchResult(task, message, at) ==
    [ID |-> task.ID, priority |-> task.priority, status |-> FAILURE,
     report |-> <<"Error solving task: ", message>>, completedAt |-> at]

\* try { await solve(); completedTasks.push(getResult()) } finally { activeTasks.delete(task.ID) }
StartTaskResolved(t, status) ==
    /\ completedTasks' = Append(completedTasks, GetResult(tasks[t], status, clock))
    /\ activeTasks' = MapDelete(activeTasks, tasks[t].ID)
    /\ solvers' = [solvers EXCEPT ![t] =
                      [solve |-> "resolved", startTask |-> "fulfilled", status |-> status,
                       msg |-> <<>>, at |-> clock]]

\* catch (error) { completedTasks.push({...}) } finally { activeTasks.delete(task.ID) }
StartTaskRejected(t, message) ==
    /\ completedTasks' = Append(completedTasks, CatchResult(tasks[t], message, clock))
    /\ activeTasks' = MapDelete(activeTasks, tasks[t].ID)
    /\ solvers' = [solvers EXCEPT ![t] =
                      [solve |-> "rejected", startTask |-> "fulfilled", status |-> NOT_STARTED,
                       msg |-> <<message>>, at |-> clock]]

\* The event loop runs a continuation only while start() is suspended in its
\* timer (or has returned).
EventLoopFree == mgrPc \in {"sleep", "done"}

SolveResolves(t) ==
    /\ EventLoopFree
    /\ solvers[t].solve = "pending"
    /\ \E status \in ResolvedStatuses : StartTaskResolved(t, status)
    /\ clock' = clock + 1
    /\ UNCHANGED <<tasks, taskQueue, maxParallelDockerContainers, mgrPc>>

SolveRejects(t) ==
    /\ EventLoopFree
    /\ solvers[t].solve = "pending"
    /\ \E message \in ErrorTexts : StartTaskRejected(t, message)
    /\ clock' = clock + 1
    /\ UNCHANGED <<tasks, taskQueue, maxParallelDockerContainers, mgrPc>>

\* ------------------------------------------------------------------------
\* TaskSolver.solve and its DockerInstance
\* ------------------------------------------------------------------------
otherThanMgr == <<svVars, ccVars, dkVars, cfVars, azVars, txVars, hdVars, wfVars, cancelled>>

otherThanSolver == <<mgrVars, ccVars, dkVars, cfVars, azVars, txVars, hdVars, wfVars, cancelled>>

otherThanCommitter == <<mgrVars, svVars, dkVars, cfVars, azVars, txVars, hdVars, wfVars, cancelled>>

otherThanDocker == <<mgrVars, svVars, ccVars, cfVars, azVars, txVars, hdVars, wfVars, clock, cancelled>>

otherThanConfig == <<mgrVars, svVars, ccVars, dkVars, azVars, txVars, hdVars, wfVars, clock, cancelled>>

otherThanAnalyzer == <<mgrVars, svVars, ccVars, dkVars, cfVars, txVars, hdVars, wfVars, clock, cancelled>>

otherThanExtractor == <<mgrVars, svVars, ccVars, dkVars, cfVars, azVars, hdVars, wfVars, clock, cancelled>>

otherThanHandles == <<mgrVars, svVars, ccVars, dkVars, cfVars, azVars, txVars, wfVars, clock, cancelled>>

otherThanWorkflow == <<mgrVars, svVars, ccVars, dkVars, cfVars, azVars, txVars, hdVars, clock, cancelled>>

\* DockerRunStatus
RUN_SUCCESS == "success"
RUN_FAILURE == "failure"
RUN_TIMEOUT == "timeout"
DockerRunStatus == {RUN_SUCCESS, RUN_FAILURE, RUN_TIMEOUT}

\* the values of the "status" field an agent may write in /app/finalReport.json
AgentReportStatuses == {"success", "skipped", "failed", "other"}

\* the contents copyFileFromContainer may read from /app/git_diff.txt
PatchTexts == {"", "diff"}

\* /app/git_diff.txt in the container when solve() reads it: absent (NULL),
\* or present with one of the texts
PatchFileStates == {NULL} \cup PatchTexts

\* constructor: taskResult = { ...task, status: NOT_STARTED, report: '', completedAt: 0 }
NewTaskResult(task) ==
    [ID |-> task.ID, priority |-> task.priority, title |-> "task title",
     status |-> NOT_STARTED, report |-> "", completedAt |-> 0, gitDiff |-> NULL]

\* the solver variables while no solver runs
IdleSolver ==
    /\ svIn = NULL
    /\ svPc = "none"
    /\ svCmd = 0
    /\ containerName = NULL
    /\ container = "absent"
    /\ taskResult = NULL
    /\ svPromise = [state |-> "none", msg |-> <<>>]
    /\ shutdownCalls = 0
    /\ svLog = <<>>

\* new TaskSolver(config, task, agentType, gitURL); solve(shutdown) not yet called
InitSolver ==
    /\ svIn \in [task : Task, shutdown : BOOLEAN, sshDir : BOOLEAN, gitConfig : BOOLEAN,
                 agentSupported : BOOLEAN, provisioning : 0..MaxProvisioning,
                 patchFile : PatchFileStates]
    /\ svPc = "new"
    /\ svCmd = 0
    /\ containerName = NULL
    /\ container = "absent"
    /\ taskResult = NewTaskResult(svIn.task)
    /\ svPromise = [state |-> "none", msg |-> <<>>]
    /\ shutdownCalls = 0
    /\ svLog = <<>>
    /\ clock = 1

\* DockerInstance.shutdownContainer(): docker rm -f <containerName>
ShutdownContainer ==
    /\ container' = IF containerName # NULL /\ container = "running" THEN "removed" ELSE container
    /\ shutdownCalls' = shutdownCalls + 1

\* an exception leaves solve() before its last try block: no finally there
RejectBeforeTry(message) ==
    /\ svPc' = "settled"
    /\ svPromise' = [state |-> "rejected", msg |-> message]
    /\ UNCHANGED <<container, shutdownCalls>>

\* for comparison: the finally block skips the shutdown
FinallyShutdown_Never ==
    UNCHANGED <<container, shutdownCalls>>

\* finally { if (shutdown) { await this.dockerInstance.shutdownContainer(); } }
FinallyShutdown ==
    IF svIn.shutdown THEN ShutdownContainer ELSE UNCHANGED <<container, shutdownCalls>>

\* an exception inside the last try block: catch rethrows, finally runs
RejectInTry(message) ==
    /\ svPc' = "settled"
    /\ svPromise' = [state |-> "rejected", msg |-> <<"Failed to parse final report: ">> \o message]
    /\ FinallyShutdown

\* solve() line 217: startContainer(imageRef, task.ID); docker run exits 0 or not
SolveStartContainer ==
    /\ svPc = "new"
    /\ containerName' = svIn.task.ID
    /\ svLog' = Append(svLog, <<"docker run">>)
    /\ \/ /\ container' = "running"
          /\ svPc' = "mkdirSsh"
          /\ svPromise' = [state |-> "pending", msg |-> <<>>]
          /\ UNCHANGED shutdownCalls
       \/ /\ svPc' = "settled"
          /\ svPromise' = [state |-> "rejected", msg |-> <<"Failed to start container">>]
          /\ UNCHANGED <<container, shutdownCalls>>
    /\ UNCHANGED <<svIn, svCmd, taskResult, clock>>

\* a runCommands() call whose result solve() does not test
\* (lines 226, 249, 256-258): it returns a status and never throws
SolveIgnoredCommand(at, label, next) ==
    /\ svPc = at
    /\ svLog' = Append(svLog, <<label>>)
    /\ svPc' = next
    /\ UNCHANGED <<svIn, svCmd, containerName, container, taskResult, svPromise, shutdownCalls, clock>>

\* a copy into the container that solve() awaits outside any try
\* (lines 230-235, 239-246, 259): skipped when the host file is absent,
\* else it succeeds or throws
SolveCopyIn(at, label, present, next) ==
    /\ svPc = at
    /\ IF ~present
         THEN /\ svPc' = next
              /\ UNCHANGED <<svLog, svPromise, container, shutdownCalls>>
         ELSE /\ svLog' = Append(svLog, <<label>>)
              /\ \/ /\ svPc' = next
                    /\ UNCHANGED <<svPromise, container, shutdownCalls>>
                 \/ RejectBeforeTry(<<"Failed to copy files to container">>)
    /\ UNCHANGED <<svIn, svCmd, containerName, taskResult, clock>>

\* lines 262-266: taskSolverCommands() throws for an unsupported agent type
SolveBuildCommands ==
    /\ svPc = "commands"
    /\ IF svIn.agentSupported
         THEN /\ svPc' = "provision"
              /\ svCmd' = 1
              /\ UNCHANGED <<svPromise, container, shutdownCalls>>
         ELSE /\ RejectBeforeTry(<<"Unsupported agent type">>)
              /\ UNCHANGED svCmd
    /\ UNCHANGED <<svIn, containerName, taskResult, svLog, clock>>

\* for comparison: the provisioning loop goes on after a non-success status
SolveProvision_IgnoreStatus ==
    /\ svPc = "provision"
    /\ IF svCmd > svIn.provisioning
         THEN /\ svPc' = "agent"
              /\ UNCHANGED <<svCmd, svLog>>
         ELSE /\ \E status \in DockerRunStatus :
                   svLog' = Append(svLog, <<"provision", svCmd, status>>)
              /\ svCmd' = svCmd + 1
              /\ UNCHANGED svPc
    /\ UNCHANGED <<svIn, containerName, taskResult, clock, svPromise, container, shutdownCalls>>

\* lines 271-277: the next provisioning command through runCommandAsync
SolveProvision ==
    /\ svPc = "provision"
    /\ IF svCmd > svIn.provisioning
         THEN /\ svPc' = "agent"
              /\ UNCHANGED <<svCmd, svLog, svPromise, container, shutdownCalls>>
         ELSE \E status \in DockerRunStatus :
                /\ svLog' = Append(svLog, <<"provision", svCmd, status>>)
                /\ IF status = RUN_SUCCESS
                     THEN /\ svCmd' = svCmd + 1
                          /\ UNCHANGED <<svPc, svPromise, container, shutdownCalls>>
                     ELSE /\ RejectBeforeTry(<<"Docker run failed with status ", status>>)
                          /\ UNCHANGED svCmd
    /\ UNCHANGED <<svIn, containerName, taskResult, clock>>

\* lines 282-294: the agent-invocation command through runCommandAsync
SolveAgent ==
    /\ svPc = "agent"
    /\ \E status \in DockerRunStatus :
         /\ svLog' = Append(svLog, <<"agent", status>>)
         /\ IF status = RUN_SUCCESS
              THEN /\ svPc' = "readReport"
                   /\ UNCHANGED <<svPromise, container, shutdownCalls>>
              ELSE RejectBeforeTry(<<"Docker run task solver command failed with status ", status>>)
    /\ UNCHANGED <<svIn, svCmd, containerName, taskResult, clock>>

\* for comparison: a mapping that leaves an unknown status word unmapped
MapAgentStatus_KnownOnly(status) ==
    IF status = "success" THEN SUCCESS
    ELSE IF status = "skipped" THEN SKIPPED
    ELSE IF status = "failed" THEN FAILURE
    ELSE NOT_STARTED

\* status === "success" ? SUCCESS : status === "skipped" ? SKIPPED : FAILURE
MapAgentStatus(status) ==
    IF status = "success" THEN SUCCESS
    ELSE IF status = "skipped" THEN SKIPPED
    ELSE FAILURE

\* for comparison: the report's taskId is copied into the result as well
SolveReadReport_TakesAgentID ==
    /\ svPc = "readReport"
    /\ svLog' = Append(svLog, <<"cat finalReport">>)
    /\ \/ /\ RejectInTry(<<"SyntaxError">>)
          /\ UNCHANGED taskResult
       \/ \E status \in AgentReportStatuses :
            /\ taskResult' = [taskResult EXCEPT !.ID = "agent id",
                                                !.title = "agent title",
                                                !.status = MapAgentStatus(status),
                                                !.report = "agent report",
                                                !.completedAt = clock]
            /\ svPc' = IF status = "success" THEN "readDiff" ELSE "writeDone"
            /\ UNCHANGED <<svPromise, container, shutdownCalls>>
    /\ clock' = clock + 1
    /\ UNCHANGED <<svIn, svCmd, containerName>>

\* lines 306-339: read /app/finalReport.json, parse it, fill taskResult
SolveReadReport ==
    /\ svPc = "readReport"
    /\ svLog' = Append(svLog, <<"cat finalReport">>)
    /\ \/ /\ RejectInTry(<<"SyntaxError">>)
          /\ UNCHANGED taskResult
       \/ \E status \in AgentReportStatuses :
            /\ taskResult' = [taskResult EXCEPT !.title = "agent title",
                                                !.status = MapAgentStatus(status),
                                                !.report = "agent report",
                                                !.completedAt = clock]
            /\ svPc' = IF status = "success" THEN "readDiff" ELSE "writeDone"
            /\ UNCHANGED <<svPromise, container, shutdownCalls>>
    /\ clock' = clock + 1
    /\ UNCHANGED <<svIn, svCmd, containerName>>

\* lines 345-350: copyFileFromContainer("/app/git_diff.txt"): docker cp
\* exits non-zero when the file is absent and copyFileFromContainer throws
SolveReadDiff ==
    /\ svPc = "readDiff"
    /\ svLog' = Append(svLog, <<"docker cp git_diff">>)
    /\ IF svIn.patchFile = NULL
         THEN /\ RejectInTry(<<"Failed to copy file from container">>)
              /\ UNCHANGED taskResult
         ELSE /\ taskResult' = [taskResult EXCEPT !.gitDiff = svIn.patchFile]
              /\ svPc' = "writeDone"
              /\ UNCHANGED <<svPromise, container, shutdownCalls>>
    /\ UNCHANGED <<svIn, svCmd, containerName, clock>>

\* lines 352-364: echo "done" > /app/done.txt, then the finally block
SolveFinish ==
    /\ svPc = "writeDone"
    /\ svLog' = Append(svLog, <<"echo done">>)
    /\ FinallyShutdown
    /\ svPc' = "settled"
    /\ svPromise' = [state |-> "resolved", msg |-> <<>>]
    /\ UNCHANGED <<svIn, svCmd, containerName, taskResult, clock>>

\* ------------------------------------------------------------------------
\* CodeCommitter and the git repository it drives
\* ------------------------------------------------------------------------
\* the largest number of TaskResults handed to one CodeCommitter
MaxResults == 2

\* Texts are sequences of characters, so that trim() is computed.
Whitespace == {" ", "\n"}
Undefined == <<"undefined">>

RECURSIVE TrimStart(_)
TrimStart(s) == IF s # <<>> /\ Head(s) \in Whitespace THEN TrimStart(Tail(s)) ELSE s

RECURSIVE TrimEnd(_)
TrimEnd(s) ==
    IF s # <<>> /\ s[Len(s)] \in Whitespace THEN TrimEnd(SubSeq(s, 1, Len(s) - 1)) ELSE s

\* String.prototype.trim
Trim(s) == TrimEnd(TrimStart(s))

\* A path is changed in a tree, or in the working tree, relative to the
\* anchor commit: X is a tracked file the user edited, U a file the user
\* created and never added, W a file of an older stash entry, Y and Z are
\* the files the patches touch.
PatchedFiles == {"Y", "Z"}

\* the paths a patch text changes
PatchFiles(gitDiff) == {gitDiff[k] : k \in DOMAIN gitDiff} \cap PatchedFiles

\* git apply accepts the patch: every hunk names a path and context that
\* exist in the tree ("?" stands for a hunk that matches nothing)
PatchWellFormed(gitDiff) == "?" \notin {gitDiff[k] : k \in DOMAIN gitDiff}

\* the TaskResults a solver may hand over (ID, title, description, status, gitDiff)
TaskResultKinds ==
    { [ID |-> "A",   title |-> "t", description |-> "d",  status |-> SUCCESS, gitDiff |-> <<"+", "Y">>],
      [ID |-> "B",   title |-> "t", description |-> "d",  status |-> FAILURE, gitDiff |-> <<"+", "Z", "\n">>],
      [ID |-> "A",   title |-> "t", description |-> "d",  status |-> SUCCESS, gitDiff |-> <<"+", "?">>],
      [ID |-> "B",   title |-> "t", description |-> "5\"", status |-> SUCCESS, gitDiff |-> <<"+", "Y">>],
      [ID |-> "A B", title |-> "t", description |-> "d",  status |-> SUCCESS, gitDiff |-> <<"+", "Y">>],
      [ID |-> "",    title |-> "t", description |-> "d",  status |-> SUCCESS, gitDiff |-> <<"+", "Y">>],
      [ID |-> "A",   title |-> "",  description |-> "d",  status |-> SUCCESS, gitDiff |-> <<"+", "Y">>],
      [ID |-> "B",   title |-> "t", description |-> "d",  status |-> "",      gitDiff |-> <<"+", "Z", "\n">>],
      [ID |-> "A",   title |-> "t", description |-> "d",  status |-> SUCCESS, gitDiff |-> <<>>],
      [ID |-> "B",   title |-> "t", description |-> "d",  status |-> SUCCESS, gitDiff |-> <<" ", "\n">>],
      [ID |-> "A",   title |-> "t", description |-> "d",  status |-> SUCCESS, gitDiff |-> Undefined] }

\* GitStateOptions after the constructor's defaults
GitStateOptions ==
    [autoStash : BOOLEAN, autoCommit : BOOLEAN, ignoreUntracked : BOOLEAN,
     backupBranch : {NULL, "codecommitter-backup"}]

\* ---- the repository ----
\* a ref name: task-<ID>-<timestamp>, <backupBranch>-<timestamp>, main
RefName(kind, id, at) == [kind |-> kind, id |-> id, at |-> at]
NoBranch == RefName("", "", 0)
Detached == NoBranch
MainBranch == RefName("main", "", 0)
AnchorCommit == <<"commit", 0>>
UserStashEntry == [message |-> "WIP", files |-> {"W"}]

\* A repository on branch main at the anchor commit, with the user's
\* uncommitted work: mods are the changes to tracked files (staged or not),
\* untracked the files git does not know, stash the stash list (top first).
InitialRepos ==
    { [head |-> [ref |-> MainBranch, commit |-> AnchorCommit],
       branches |-> (MainBranch :> AnchorCommit),
       commits |-> (AnchorCommit :> [parent |-> <<>>, tree |-> {}]),
       mods |-> m, untracked |-> u, stash |-> s] :
         m \in {{}, {"X"}}, u \in {{}, {"U"}}, s \in {<<>>, <<UserStashEntry>>} }

HeadTree(r) == r.commits[r.head.commit].tree

\* git rev-parse HEAD
GitRevParseHead(r) == r.head.commit

\* git checkout <commit>: refused when a local change is to a path that
\* differs between the two trees; otherwise HEAD is detached at the commit
\* and the local changes are carried over
GitCheckout(r, commit) ==
    LET from == HeadTree(r)
        to == r.commits[commit].tree
        differ == (from \ to) \cup (to \ from)
    IN  IF (r.mods \cup r.untracked) \cap differ # {}
        THEN [ok |-> FALSE, repo |-> r]
        ELSE [ok |-> TRUE, repo |-> [r EXCEPT !.head = [ref |-> Detached, commit |-> commit]]]

\* a branch name the shell and git accept as one ref name
ValidRefName(name) == name.id # "A B"

\* git checkout -b <name>
GitCheckoutNewBranch(r, name) ==
    IF name \in DOMAIN r.branches \/ ~ValidRefName(name)
    THEN [ok |-> FALSE, repo |-> r]
    ELSE [ok |-> TRUE,
          repo |-> [r EXCEPT !.branches = MapSet(r.branches, name, r.head.commit),
                             !.head = [ref |-> name, commit |-> r.head.commit]]]

\* git apply --whitespace=fix <file>: all or nothing
GitApply(r, gitDiff) ==
    IF ~PatchWellFormed(gitDiff)
       \/ PatchFiles(gitDiff) \cap (HeadTree(r) \cup r.mods \cup r.untracked) # {}
    THEN [ok |-> FALSE, repo |-> r]
    ELSE [ok |-> TRUE, repo |-> [r EXCEPT !.mods = r.mods \cup PatchFiles(gitDiff)]]

\* git add -A: every change, untracked files included, is staged
GitAddAll(r) == [r EXCEPT !.mods = r.mods \cup r.untracked, !.untracked = {}]

\* git commit -m "<message>": fails when the shell cannot parse the command
\* or when nothing is staged
GitCommit(r, shellParses) ==
    IF ~shellParses \/ r.mods = {}
    THEN [ok |-> FALSE, repo |-> r]
    ELSE LET id == <<"commit", Cardinality(DOMAIN r.commits)>>
             made == [parent |-> r.head.commit, tree |-> HeadTree(r) \cup r.mods]
         IN  [ok |-> TRUE,
              repo |-> [r EXCEPT !.commits = MapSet(r.commits, id, made),
                                 !.head = [ref |-> r.head.ref, commit |-> id],
                                 !.branches = IF r.head.ref = Detached THEN r.branches
                                              ELSE MapSet(r.branches, r.head.ref, id),
                                 !.mods = {}]]

\* git reset --hard HEAD
GitResetHard(r) == [r EXCEPT !.mods = {}]

\* git clean -fd
GitCleanFd(r) == [r EXCEPT !.untracked = {}]

\* git stash push -m <message>: with no change to a tracked file it prints
\* "No local changes to save", saves nothing and still exits 0
GitStashPush(r, message) ==
    IF r.mods = {} THEN r
    ELSE [r EXCEPT !.stash = <<[message |-> message, files |-> r.mods]>> \o r.stash,
                   !.mods = {}]

\* git stash pop: fails on an empty stash list or on a conflict with the
\* working tree; otherwise applies and drops the top entry
GitStashPop(r) ==
    IF r.stash = <<>> \/ Head(r.stash).files \cap (r.mods \cup r.untracked \cup HeadTree(r)) # {}
    THEN [ok |-> FALSE, repo |-> r]
    ELSE [ok |-> TRUE, repo |-> [r EXCEPT !.mods = r.mods \cup Head(r.stash).files,
                                          !.stash = Tail(r.stash)]]

\* ---- CodeCommitter ----
\* A committer state cs holds the repository, this.stashedChanges and the
\* clock; this.originalGitNode and this.gitStateOptions never change after
\* construction and are read from the variables.
WithRepo(cs, r) == [cs EXCEPT !.repo = r]

\* createTaskBranch without the checkout of the original node (for comparison)
CreateTaskBranch_FromHead(cs, tr) ==
    LET branchName == RefName("task", tr.ID, cs.now)
        ticked == [cs EXCEPT !.now = cs.now + 1]
        made == GitCheckoutNewBranch(cs.repo, branchName)
    IN  IF ~made.ok THEN [ok |-> FALSE, cs |-> ticked, branchName |-> NoBranch]
        ELSE [ok |-> TRUE, cs |-> WithRepo(ticked, made.repo), branchName |-> branchName]

\* createTaskBranch: branch task-<ID>-<Date.now()> from the original node
CreateTaskBranch(cs, tr) ==
    LET branchName == RefName("task", tr.ID, cs.now)
        ticked == [cs EXCEPT !.now = cs.now + 1]
        atNode == GitCheckout(cs.repo, originalGitNode)
        made == GitCheckoutNewBranch(atNode.repo, branchName)
    IN  IF ~atNode.ok THEN [ok |-> FALSE, cs |-> ticked, branchName |-> NoBranch]
        ELSE IF ~made.ok THEN [ok |-> FALSE, cs |-> WithRepo(ticked, atNode.repo), branchName |-> NoBranch]
        ELSE [ok |-> TRUE, cs |-> WithRepo(ticked, made.repo), branchName |-> branchName]

\* applyGitDiff: returns without effect on an empty text, otherwise git apply
ApplyGitDiff(cs, gitDiff) ==
    IF gitDiff = Undefined \/ gitDiff = <<>> \/ Trim(gitDiff) = <<>>
    THEN [ok |-> TRUE, cs |-> cs]
    ELSE LET applied == GitApply(cs.repo, gitDiff)
         IN  [ok |-> applied.ok, cs |-> WithRepo(cs, applied.repo)]

\* createCommitMessage escapes the quotes of title and report, not those of
\* the description: the command parses iff the description has no quote
CommitCommandParses(tr) == tr.description # "5\""

\* commitChanges: git add -A, git commit -m "<message>"
CommitChanges(cs, tr) ==
    LET committed == GitCommit(GitAddAll(cs.repo), CommitCommandParses(tr))
    IN  [ok |-> committed.ok, cs |-> WithRepo(cs, committed.repo)]

\* cleanWorkingDirectory: git reset --hard HEAD, git clean -fd
CleanWorkingDirectory(cs) == WithRepo(cs, GitCleanFd(GitResetHard(cs.repo)))

\* returnToOriginalNode without the checkout (for comparison)
ReturnToOriginalNode_NoCheckout(cs) == [ok |-> TRUE, cs |-> CleanWorkingDirectory(cs)]

\* returnToOriginalNode: git checkout <originalGitNode>, then clean
ReturnToOriginalNode(cs) ==
    LET atNode == GitCheckout(cs.repo, originalGitNode)
    IN  IF ~atNode.ok THEN [ok |-> FALSE, cs |-> cs]
        ELSE [ok |-> TRUE, cs |-> CleanWorkingDirectory(WithRepo(cs, atNode.repo))]

\* isGitRepoClean: git status --porcelain, without the ?? lines under ignoreUntracked
IsGitRepoClean(cs) ==
    IF ccIn.options.ignoreUntracked THEN cs.repo.mods = {}
    ELSE cs.repo.mods \cup cs.repo.untracked = {}

\* createBackupBranch: git checkout -b <backupBranch>-<Date.now()>, git checkout <originalGitNode>
CreateBackupBranch(cs) ==
    IF ccIn.options.backupBranch = NULL THEN cs
    ELSE LET ticked == [cs EXCEPT !.now = cs.now + 1]
             made == GitCheckoutNewBranch(cs.repo, RefName(ccIn.options.backupBranch, "", cs.now))
             atNode == GitCheckout(made.repo, originalGitNode)
         IN  IF ~made.ok THEN ticked
             ELSE IF ~atNode.ok THEN WithRepo(ticked, made.repo)
             ELSE WithRepo(ticked, atNode.repo)

\* stashChanges: git stash push; sets stashedChanges whenever the command
\* exits 0, returns false from its catch block when the command fails
StashChanges(cs) ==
    IF ~ccIn.gitStashWorks THEN [ok |-> FALSE, cs |-> cs]
    ELSE [ok |-> TRUE,
          cs |-> [cs EXCEPT !.repo = GitStashPush(cs.repo, "CodeCommitter auto-stash"),
                            !.stashedChanges = TRUE]]

\* autoCommitChanges: nothing to do on an empty status, else git add -A and git commit
AutoCommitChanges(cs) ==
    IF cs.repo.mods \cup cs.repo.untracked = {} THEN [ok |-> TRUE, cs |-> cs]
    ELSE LET committed == GitCommit(GitAddAll(cs.repo), TRUE)
         IN  IF committed.ok THEN [ok |-> TRUE, cs |-> WithRepo(cs, committed.repo)]
             ELSE [ok |-> FALSE, cs |-> WithRepo(cs, GitAddAll(cs.repo))]

\* restoreStashedChanges without the git stash pop (for comparison)
RestoreStashedChanges_NoPop(cs) == cs

\* restoreStashedChanges: git stash pop
RestoreStashedChanges(cs) ==
    IF ~cs.stashedChanges THEN cs
    ELSE LET popped == GitStashPop(cs.repo)
         IN  IF popped.ok THEN [cs EXCEPT !.repo = popped.repo, !.stashedChanges = FALSE]
             ELSE cs

\* handleDirtyGitRepo with the two policies in the other order (for comparison)
HandleDirtyGitRepo_CommitFirst(cs) ==
    LET backedUp == CreateBackupBranch(cs)
        stashed == StashChanges(backedUp)
        committed == AutoCommitChanges(backedUp)
    IN  IF ccIn.options.autoCommit /\ committed.ok
        THEN [success |-> TRUE, action |-> "commit", cs |-> committed.cs]
        ELSE IF ccIn.options.autoStash /\ stashed.ok
        THEN [success |-> TRUE, action |-> "stash", cs |-> stashed.cs]
        ELSE [success |-> FALSE, action |-> NULL, cs |-> backedUp]

\* handleDirtyGitRepo: backup branch, then stash, then auto-commit, then give up
HandleDirtyGitRepo(cs) ==
    LET backedUp == CreateBackupBranch(cs)
        stashed == StashChanges(backedUp)
        committed == AutoCommitChanges(backedUp)
    IN  IF ccIn.options.autoStash /\ stashed.ok
        THEN [success |-> TRUE, action |-> "stash", cs |-> stashed.cs]
        ELSE IF ccIn.options.autoCommit /\ committed.ok
        THEN [success |-> TRUE, action |-> "commit", cs |-> committed.cs]
        ELSE IF ccIn.options.autoCommit
        THEN [success |-> FALSE, action |-> NULL, cs |-> committed.cs]
        ELSE [success |-> FALSE, action |-> NULL, cs |-> backedUp]

\* validateTaskResult: the error it throws, NULL if none
ValidateTaskResult(tr) ==
    IF tr.ID = "" THEN "Task result missing ID"
    ELSE IF tr.title = "" THEN "Task result missing title"
    ELSE IF tr.status = "" THEN "Task result missing status"
    ELSE NULL

\* the skip test of processTaskResult without trim() (for comparison)
NoGitDiff_NoTrim(gitDiff) == gitDiff = Undefined \/ gitDiff = <<>>

\* !taskResult.gitDiff || taskResult.gitDiff.trim() === ''
NoGitDiff(gitDiff) == gitDiff = Undefined \/ gitDiff = <<>> \/ Trim(gitDiff) = <<>>

\* the catch block of processTaskResult: record the error, try to return
CatchProcessError(cs, branchName, message) ==
    [cs |-> ReturnToOriginalNode(cs).cs,
     result |-> [success |-> FALSE, branchName |-> branchName, error |-> message]]

\* processTaskResult
ProcessTaskResult(cs, tr) ==
    LET invalid == ValidateTaskResult(tr)
        clean == IsGitRepoClean(cs)
        handled == HandleDirtyGitRepo(cs)
        ready == IF clean THEN cs ELSE handled.cs
        branch == CreateTaskBranch(ready, tr)
        applied == ApplyGitDiff(branch.cs, tr.gitDiff)
        committed == CommitChanges(applied.cs, tr)
        returned == ReturnToOriginalNode(committed.cs)
    IN  IF invalid # NULL THEN CatchProcessError(cs, NoBranch, invalid)
        ELSE IF NoGitDiff(tr.gitDiff)
        THEN [cs |-> cs, result |-> [success |-> TRUE, branchName |-> NoBranch, error |-> NULL]]
        ELSE IF ~clean /\ ~handled.success
        THEN CatchProcessError(handled.cs, NoBranch, "Git repository is not in a clean state")
        ELSE IF ~branch.ok
        THEN CatchProcessError(branch.cs, NoBranch, "Failed to create branch")
        ELSE IF ~applied.ok
        THEN CatchProcessError(applied.cs, branch.branchName, "Failed to apply git diff")
        ELSE IF ~committed.ok
        THEN CatchProcessError(committed.cs, branch.branchName, "Failed to commit changes")
        ELSE IF ~returned.ok
        THEN CatchProcessError(returned.cs, branch.branchName, "Failed to return to original git node")
        ELSE [cs |-> returned.cs,
              result |-> [success |-> TRUE, branchName |-> branch.branchName, error |-> NULL]]

\* the loop body of commitAllChanges without the failure count (for comparison)
PushResult_FailuresUncounted(acc, tr, pr) ==
    [results |-> Append(acc.results,
                        [taskId |-> tr.ID, taskTitle |-> tr.title, branchName |-> pr.branchName,
                         success |-> pr.success, error |-> pr.error]),
     successfulTasks |-> acc.successfulTasks + (IF pr.success THEN 1 ELSE 0),
     failedTasks |-> acc.failedTasks]

\* the loop body of commitAllChanges after processTaskResult: push the
\* record, count the outcome
PushResult(acc, tr, pr) ==
    [results |-> Append(acc.results,
                        [taskId |-> tr.ID, taskTitle |-> tr.title, branchName |-> pr.branchName,
                         success |-> pr.success, error |-> pr.error]),
     successfulTasks |-> acc.successfulTasks + (IF pr.success THEN 1 ELSE 0),
     failedTasks |-> acc.failedTasks + (IF pr.success THEN 0 ELSE 1)]

\* the committer state held in the variables
CS == [repo |-> repo, stashedChanges |-> stashedChanges, now |-> clock]

\* the committer variables while no committer runs
IdleCommitter ==
    /\ ccIn = NULL
    /\ repo = NULL
    /\ originalGitNode = NULL
    /\ stashedChanges = FALSE
    /\ ccPc = "none"
    /\ ccIdx = 0
    /\ ccAcc = NULL
    /\ summary = NULL

\* new CodeCommitter(taskResults, gitRepoPath, gitStateOptions); commitAllChanges()
\* has initialised its locals
InitCommitter ==
    /\ ccIn \in [taskResults : UNION {[1..n -> TaskResultKinds] : n \in 0..MaxResults},
                 options : GitStateOptions, repo : InitialRepos,
                 gitStashWorks : BOOLEAN]
    /\ repo = ccIn.repo
    /\ originalGitNode = GitRevParseHead(ccIn.repo)
    /\ stashedChanges = FALSE
    /\ ccPc = "loop"
    /\ ccIdx = 1
    /\ ccAcc = [results |-> <<>>, successfulTasks |-> 0, failedTasks |-> 0]
    /\ summary = NULL
    /\ clock = 1

\* one iteration of the for loop of commitAllChanges
ProcessNext ==
    /\ ccPc = "loop"
    /\ ccIdx <= Len(ccIn.taskResults)
    /\ LET tr == ccIn.taskResults[ccIdx]
           out == ProcessTaskResult(CS, tr)
       IN  /\ repo' = out.cs.repo
           /\ stashedChanges' = out.cs.stashedChanges
           /\ clock' = out.cs.now
           /\ ccAcc' = PushResult(ccAcc, tr, out.result)
    /\ ccIdx' = ccIdx + 1
    /\ UNCHANGED <<ccIn, originalGitNode, ccPc, summary>>

\* the end of commitAllChanges: restore the stash, build the summary, return
ReturnSummary ==
    /\ ccPc = "loop"
    /\ ccIdx > Len(ccIn.taskResults)
    /\ LET restored == RestoreStashedChanges(CS)
       IN  /\ repo' = restored.repo
           /\ stashedChanges' = restored.stashedChanges
           /\ summary' = [totalTasks |-> Len(ccIn.taskResults),
                          successfulTasks |-> ccAcc.successfulTasks,
                          failedTasks |-> ccAcc.failedTasks,
                          results |-> ccAcc.results,
                          gitStateOptions |-> ccIn.options,
                          stashedChanges |-> restored.stashedChanges]
    /\ ccPc' = "returned"
    /\ UNCHANGED <<ccIn, originalGitNode, ccIdx, ccAcc, clock>>

\* ------------------------------------------------------------------------
\* DockerInstance.runCommands
\* ------------------------------------------------------------------------
\* the longest command list handed to one runCommands() call
MaxCommands == 3
\* the largest timeoutSeconds (0 stands for no timeout)
MaxTimeoutSeconds == 1

\* What a command does when docker exec runs it: the exit code of its
\* process, the seconds it needs, its standard output; spawn = "throws" is a
\* docker exec that cannot be spawned at all.
CommandKinds ==
    { [cmd |-> "a", spawn |-> "ok",     exitCode |-> 0, seconds |-> 1, stdout |-> "out a"],
      [cmd |-> "b", spawn |-> "ok",     exitCode |-> 0, seconds |-> 2, stdout |-> "out b"],
      [cmd |-> "c", spawn |-> "ok",     exitCode |-> 1, seconds |-> 1, stdout |-> ""],
      [cmd |-> "d", spawn |-> "throws", exitCode |-> 0, seconds |-> 0, stdout |-> ""] }

\* the exit code spawnSync reports for a process killed by its timer
KILLED == -1

\* the docker variables while no runCommands() call is modelled
IdleDocker ==
    /\ dkIn = NULL
    /\ dkPc = "none"
    /\ dkIdx = 0
    /\ dkRes = NULL
    /\ dkRan = <<>>
    /\ dkElapsed = 0

\* runCommands(commands, timeoutSeconds) is called on an instance whose
\* container was started (containerName set) or not
InitDocker ==
    /\ dkIn \in [commands : UNION {[1..n -> CommandKinds] : n \in 0..MaxCommands},
                 timeoutSeconds : 0..MaxTimeoutSeconds]
    /\ dkPc = "call"
    /\ dkIdx = 0
    /\ dkRes = NULL
    /\ dkRan = <<>>
    /\ dkElapsed = 0
    /\ containerName \in {NULL, "A"}
    /\ container = IF containerName = NULL THEN "absent" ELSE "running"
    /\ svIn = NULL
    /\ svPc = "none"
    /\ svCmd = 0
    /\ taskResult = NULL
    /\ svPromise = [state |-> "none", msg |-> <<>>]
    /\ shutdownCalls = 0
    /\ svLog = <<>>
    /\ clock = 1

\* lines 108-114: the guard on containerName, then the locals
RunCommandsCall ==
    /\ dkPc = "call"
    /\ IF containerName = NULL
         THEN /\ dkPc' = "thrown"
              /\ UNCHANGED <<dkIdx, dkRes>>
         ELSE /\ dkPc' = "loop"
              /\ dkIdx' = 1
              /\ dkRes' = [output |-> <<>>, error |-> <<>>, success |-> TRUE, status |-> RUN_SUCCESS]
    /\ UNCHANGED <<dkIn, dkRan, dkElapsed>>

\* spawnSync({cmd: docker exec ..., timeout}): the process runs to its end,
\* or is killed when its own timer of timeoutSeconds expires first
SpawnSync(command, timeoutSeconds) ==
    IF timeoutSeconds > 0 /\ command.seconds > timeoutSeconds
    THEN [exitCode |-> KILLED, seconds |-> timeoutSeconds, stdout |-> ""]
    ELSE [exitCode |-> command.exitCode, seconds |-> command.seconds, stdout |-> command.stdout]

\* for comparison: one iteration of the loop without the break
RunCommandsExec_NoBreak ==
    /\ dkPc = "loop"
    /\ dkIdx <= Len(dkIn.commands)
    /\ LET command == dkIn.commands[dkIdx]
           execResult == SpawnSync(command, dkIn.timeoutSeconds)
       IN  \E wait \in {0, 1} :
             IF command.spawn = "throws"
               THEN /\ dkRes' = [dkRes EXCEPT !.error = Append(@, <<"Exception: ", command.cmd>>),
                                              !.success = FALSE, !.status = RUN_FAILURE]
                    /\ dkIdx' = Len(dkIn.commands) + 1
                    /\ dkElapsed' = dkElapsed + wait
                    /\ UNCHANGED dkRan
               ELSE /\ dkRan' = Append(dkRan, [cmd |-> command.cmd, exitCode |-> execResult.exitCode])
                    /\ dkElapsed' = dkElapsed + wait + execResult.seconds
                    /\ dkIdx' = dkIdx + 1
                    /\ IF execResult.exitCode # 0
                         THEN dkRes' = [dkRes EXCEPT
                                  !.output = Append(@, <<"$ ", command.cmd, execResult.stdout>>),
                                  !.error = Append(@, <<"Error running ", command.cmd>>),
                                  !.success = FALSE, !.status = RUN_FAILURE]
                         ELSE dkRes' = [dkRes EXCEPT
                                  !.output = Append(@, <<"$ ", command.cmd, execResult.stdout>>)]
    /\ UNCHANGED <<dkIn, dkPc>>

\* lines 127-149: one iteration of the for loop: the random wait, docker
\* exec through spawnSync, the output line, the test of the exit code (break
\* on a non-zero one); an exception of spawnSync goes to the catch block
RunCommandsExec ==
    /\ dkPc = "loop"
    /\ dkIdx <= Len(dkIn.commands)
    /\ LET command == dkIn.commands[dkIdx]
           execResult == SpawnSync(command, dkIn.timeoutSeconds)
       IN  \E wait \in {0, 1} :
             IF command.spawn = "throws"
               THEN /\ dkRes' = [dkRes EXCEPT !.error = Append(@, <<"Exception: ", command.cmd>>),
                                              !.success = FALSE, !.status = RUN_FAILURE]
                    /\ dkIdx' = Len(dkIn.commands) + 1
                    /\ dkElapsed' = dkElapsed + wait
                    /\ UNCHANGED dkRan
               ELSE /\ dkRan' = Append(dkRan, [cmd |-> command.cmd, exitCode |-> execResult.exitCode])
                    /\ dkElapsed' = dkElapsed + wait + execResult.seconds
                    /\ IF execResult.exitCode # 0
                         THEN /\ dkRes' = [dkRes EXCEPT
                                    !.output = Append(@, <<"$ ", command.cmd, execResult.stdout>>),
                                    !.error = Append(@, <<"Error running ", command.cmd>>),
                                    !.success = FALSE, !.status = RUN_FAILURE]
                              /\ dkIdx' = Len(dkIn.commands) + 1
                         ELSE /\ dkRes' = [dkRes EXCEPT
                                    !.output = Append(@, <<"$ ", command.cmd, execResult.stdout>>)]
                              /\ dkIdx' = dkIdx + 1
    /\ UNCHANGED <<dkIn, dkPc>>

\* lines 157-162: return { output, success, status, error }
RunCommandsReturn ==
    /\ dkPc = "loop"
    /\ dkIdx > Len(dkIn.commands)
    /\ dkPc' = "returned"
    /\ UNCHANGED <<dkIn, dkIdx, dkRes, dkRan, dkElapsed>>

\* ------------------------------------------------------------------------
\* ConfigReader
\* ------------------------------------------------------------------------
\* the largest number of fields one configuration file sets
MaxFileFields == 2

\* the largest number of FSC_* variables set in the environment
MaxEnvVars == 1

\* the Config fields the two logical constraints of validateConfig relate
ConfigFields == {"maxDockerContainers", "maxParallelDockerContainers", "maxTasks", "minTasks"}

DEFAULT_CONFIG ==
    [maxDockerContainers |-> 10, maxParallelDockerContainers |-> 10,
     maxTasks |-> 10, minTasks |-> 1]

\* the numbers a configuration file gives to a field
FileValues == {5, 20}

\* the texts of an FSC_* variable, as sequences of characters
EnvTexts == {<<"5">>, <<"2", "0">>, <<"x">>}

\* {}: an object with no own property
EmptyConfig == [f \in {} |-> 0]

\* the objects with at most n of the fields, each with one of the values
PartialConfigs(values, n) ==
    UNION {[S -> values] : S \in {T \in SUBSET ConfigFields : Cardinality(T) <= n}}

\* a configuration file: absent, not JSON, or a JSON object
ConfigFiles ==
    {[kind |-> "absent", json |-> EmptyConfig], [kind |-> "garbled", json |-> EmptyConfig]}
        \cup {[kind |-> "json", json |-> c] : c \in PartialConfigs(FileValues, MaxFileFields)}

\* options.throwOnMissing || false, for the reader main() constructs
throwOnMissing == FALSE

\* options.readSupplementaryConfig ?? true
readSupplementaryConfig == TRUE

\* value !== undefined
Has(config, f) == f \in DOMAIN config

\* the field in a && chain: undefined and 0 are falsy
Truthy(config, f) == Has(config, f) /\ config[f] # 0

\* { ...a, ...b }
Spread(a, b) ==
    [f \in DOMAIN a \cup DOMAIN b |-> IF f \in DOMAIN b THEN b[f] ELSE a[f]]

\* validateNumericField throws
NumericFieldThrows(config, fieldName, minValue, maxValue) ==
    Has(config, fieldName) /\ (config[fieldName] < minValue \/ config[fieldName] > maxValue)

\* validateConfig(config) throws; when it does not, it returns a copy of config
ValidateConfigThrows(config) ==
    \/ NumericFieldThrows(config, "maxDockerContainers", 1, 100)
    \/ NumericFieldThrows(config, "maxParallelDockerContainers", 1, 50)
    \/ /\ Truthy(config, "maxTasks")
       /\ Truthy(config, "minTasks")
       /\ config["minTasks"] > config["maxTasks"]
    \/ /\ Truthy(config, "maxParallelDockerContainers")
       /\ Truthy(config, "maxDockerContainers")
       /\ config["maxParallelDockerContainers"] > config["maxDockerContainers"]

\* createConfig: { ...DEFAULT_CONFIG, ...userConfig }
CreateConfig(userConfig) == Spread(DEFAULT_CONFIG, userConfig)

\* readSupplementaryConfigFile: {} when ./.fsc/config.json is absent, is not
\* JSON or fails validateConfig
ReadSupplementaryConfigFile(file) ==
    IF file.kind = "json" /\ ~ValidateConfigThrows(file.json) THEN file.json ELSE EmptyConfig

Returned(config) == [threw |-> FALSE, config |-> config]
Thrown == [threw |-> TRUE, config |-> EmptyConfig]

\* the try block of readConfig
ReadConfigTry(userFile, projectFile) ==
    IF userFile.kind = "garbled" THEN Thrown
    ELSE IF userFile.kind = "json" /\ ValidateConfigThrows(userFile.json) THEN Thrown
    ELSE IF userFile.kind = "absent" /\ throwOnMissing THEN Thrown
    ELSE LET baseConfig == userFile.json
             supplementaryConfig ==
                 IF readSupplementaryConfig THEN ReadSupplementaryConfigFile(projectFile)
                 ELSE EmptyConfig
             mergedConfig == Spread(baseConfig, supplementaryConfig)
         IN  IF ValidateConfigThrows(mergedConfig) THEN Thrown
             ELSE Returned(CreateConfig(mergedConfig))

\* readConfig(): the catch block rethrows, or returns DEFAULT_CONFIG
ReadConfig(userFile, projectFile) ==
    LET tried == ReadConfigTry(userFile, projectFile)
    IN  IF ~tried.threw THEN tried
        ELSE IF throwOnMissing THEN Thrown
        ELSE Returned(DEFAULT_CONFIG)

IsDigit(c) == c \in {"0", "1", "2", "3", "4", "5", "6", "7", "8", "9"}

DigitValue(c) ==
    CASE c = "0" -> 0 [] c = "1" -> 1 [] c = "2" -> 2 [] c = "3" -> 3 [] c = "4" -> 4
      [] c = "5" -> 5 [] c = "6" -> 6 [] c = "7" -> 7 [] c = "8" -> 8 [] c = "9" -> 9

RECURSIVE ParseDigits(_, _)
ParseDigits(s, acc) ==
    IF s = <<>> \/ ~IsDigit(Head(s)) THEN acc
    ELSE ParseDigits(Tail(s), acc * 10 + DigitValue(Head(s)))

\* parseInt(value, 10): leading white space is skipped, then an optional
\* sign, then the leading decimal digits are read; NaN when there is none
ParseInt(value) ==
    LET t == TrimStart(value)
        signed == t # <<>> /\ Head(t) \in {"+", "-"}
        digits == IF signed THEN Tail(t) ELSE t
    IN  IF digits = <<>> \/ ~IsDigit(Head(digits)) THEN [nan |-> TRUE, number |-> 0]
        ELSE [nan |-> FALSE,
              number |-> IF signed /\ Head(t) = "-" THEN 0 - ParseDigits(digits, 0)
                         ELSE ParseDigits(digits, 0)]

\* convertEnvValue for a number field: null when parseInt gives NaN
ConvertEnvValue(value, configKey) ==
    LET numValue == ParseInt(value)
    IN  [null |-> numValue.nan, value |-> numValue.number]

\* readConfigWithEnvOverride(): readConfig(), then every FSC_* variable
\* that is set and converts is assigned over the field it maps to
ReadConfigWithEnvOverride(userFile, projectFile, env) ==
    LET base == ReadConfig(userFile, projectFile)
    IN  IF base.threw THEN base
        ELSE Returned([f \in DOMAIN base.config |->
                 IF Has(env, f) /\ ~ConvertEnvValue(env[f], f).null
                 THEN ConvertEnvValue(env[f], f).value
                 ELSE base.config[f]])

IdleConfig ==
    /\ cfIn = NULL
    /\ cfPc = "none"
    /\ cfOut = NULL

\* a reader is constructed over a user file, a project file and an environment
InitConfig ==
    /\ cfIn \in [userFile : ConfigFiles, projectFile : ConfigFiles,
                 env : PartialConfigs(EnvTexts, MaxEnvVars)]
    /\ cfPc = "call"
    /\ cfOut = NULL
    /\ clock = 1

ReadConfigCall ==
    /\ cfPc = "call"
    /\ cfOut' = [op |-> "readConfig", result |-> ReadConfig(cfIn.userFile, cfIn.projectFile)]
    /\ cfPc' = "returned"
    /\ UNCHANGED cfIn

ReadConfigWithEnvOverrideCall ==
    /\ cfPc = "call"
    /\ cfOut' = [op |-> "readConfigWithEnvOverride",
                 result |-> ReadConfigWithEnvOverride(cfIn.userFile, cfIn.projectFile, cfIn.env)]
    /\ cfPc' = "returned"
    /\ UNCHANGED cfIn

\* ------------------------------------------------------------------------
\* analyzeCodebase and main
\* ------------------------------------------------------------------------
\* the longest task list the agent writes to /app/tasks.json
MaxAnalyzed == 2

\* SWEAgentType
AgentTypes == {"gemini-cli", "claude-code", "codex", "cursor"}

\* the entries the agent may write to /app/tasks.json
AnalyzedTaskKinds ==
    { [ID |-> "A", title |-> "t", description |-> "d", priority |-> 1, followingTasks |-> <<>>],
      [ID |-> "B", title |-> "t", description |-> "d", priority |-> 1, followingTasks |-> <<>>],
      [ID |-> "",  title |-> "t", description |-> "d", priority |-> 1, followingTasks |-> <<>>],
      [ID |-> "A", title |-> "",  description |-> "d", priority |-> 1, followingTasks |-> <<>>],
      [ID |-> "B", title |-> "t", description |-> "",  priority |-> 1, followingTasks |-> <<>>] }

\* what JSON.parse makes of the text of /app/tasks.json: an array of
\* entries, or a SyntaxError
TasksJsonStates ==
    {[parses |-> FALSE, value |-> <<>>]}
        \cup {[parses |-> TRUE, value |-> list] :
                 list \in UNION {[1..n -> AnalyzedTaskKinds] : n \in 0..MaxAnalyzed}}

IdleAnalyzer ==
    /\ azIn = NULL
    /\ azPc = "none"
    /\ azName = NULL
    /\ azContainer = "absent"
    /\ azTasks = <<>>
    /\ azPromise = [state |-> "none", msg |-> <<>>]
    /\ azShutdownCalls = 0
    /\ azLog = <<>>
    /\ mainPc = "none"

\* analyzeCodebase(config, gitRemoteUrl, shutdownContainer) is called:
\* docker = new DockerInstance(), tasks = []
AnalyzerCalled ==
    /\ azIn \in [agentType : AgentTypes, shutdownContainer : BOOLEAN,
                 minTasks : {0, 1}, maxTasks : {1, MaxAnalyzed},
                 tasksJson : TasksJsonStates]
    /\ azPc = "new"
    /\ azName = NULL
    /\ azContainer = "absent"
    /\ azTasks = <<>>
    /\ azPromise = [state |-> "pending", msg |-> <<>>]
    /\ azShutdownCalls = 0
    /\ azLog = <<>>
    /\ clock = 1

InitAnalyzer == AnalyzerCalled /\ mainPc = "none"

\* for comparison: the finally block without the shutdown
AnalyzeFinally_Never ==
    UNCHANGED <<azContainer, azShutdownCalls>>

\* finally { if (shutdownContainer) { await docker.shutdownContainer(); } }
\* (docker rm -f <containerName>; containerName is set from the first line
\* of startContainer on, so the container is removed if it runs)
AnalyzeFinally ==
    IF azIn.shutdownContainer
    THEN /\ azContainer' = IF azContainer = "running" THEN "removed" ELSE azContainer
         /\ azShutdownCalls' = azShutdownCalls + 1
    ELSE UNCHANGED <<azContainer, azShutdownCalls>>

\* for comparison: an exception that leaves the function past the finally block
AnalyzeThrow_NoFinally(message) ==
    /\ azPc' = "settled"
    /\ azPromise' = [state |-> "rejected", msg |-> message]
    /\ UNCHANGED <<azContainer, azShutdownCalls>>

\* an exception inside the try block: finally runs, the promise rejects
AnalyzeThrow(message) ==
    /\ azPc' = "settled"
    /\ azPromise' = [state |-> "rejected", msg |-> message]
    /\ AnalyzeFinally

\* line 30: startContainer(dockerImageRef, containerName); containerName is
\* set before docker run, which exits 0 or not
AnalyzeStartContainer ==
    /\ azPc = "new"
    /\ azName' = "analyzer-container"
    /\ azLog' = Append(azLog, <<"docker run">>)
    /\ \/ /\ azContainer' = "running"
          /\ azPc' = "mkdir"
          /\ UNCHANGED <<azPromise, azShutdownCalls>>
       \/ AnalyzeThrow(<<"Failed to start container">>)
    /\ UNCHANGED <<azIn, azTasks, mainPc>>

\* line 36: runCommands(['mkdir', '-p', '/app']), its result is not tested
AnalyzeMkdir ==
    /\ azPc = "mkdir"
    /\ azLog' = Append(azLog, <<"mkdir -p /app">>)
    /\ azPc' = "copyPrompt"
    /\ UNCHANGED <<azIn, azName, azContainer, azTasks, azPromise, azShutdownCalls, mainPc>>

\* line 44: copyFileToContainer(prompt, '/app/codeAnalyzerPrompt.txt')
\* throws when docker cp fails
AnalyzeCopyPrompt ==
    /\ azPc = "copyPrompt"
    /\ azLog' = Append(azLog, <<"docker cp codeAnalyzerPrompt.txt">>)
    /\ \/ /\ azPc' = "commands"
          /\ UNCHANGED <<azContainer, azPromise, azShutdownCalls>>
       \/ AnalyzeThrow(<<"Failed to copy file to container">>)
    /\ UNCHANGED <<azIn, azName, azTasks, mainPc>>

\* lines 59-105: the command list is built; CODEX throws
AnalyzeBuildCommands ==
    /\ azPc = "commands"
    /\ IF azIn.agentType = "codex"
         THEN AnalyzeThrow(<<"SWEAgentType.CODEX is not implemented yet for analyzeCodebase">>)
         ELSE /\ azPc' = "run"
              /\ UNCHANGED <<azContainer, azPromise, azShutdownCalls>>
    /\ UNCHANGED <<azIn, azName, azTasks, azLog, mainPc>>

\* lines 113-121: runCommands(allCommands, timeout); a status that is not
\* success throws
AnalyzeRunCommands ==
    /\ azPc = "run"
    /\ \E status \in {RUN_SUCCESS, RUN_FAILURE} :
         /\ azLog' = Append(azLog, <<"agent", status>>)
         /\ IF status = RUN_SUCCESS
              THEN /\ azPc' = "read"
                   /\ UNCHANGED <<azContainer, azPromise, azShutdownCalls>>
              ELSE AnalyzeThrow(<<"Docker command execution failed">>)
    /\ UNCHANGED <<azIn, azName, azTasks, mainPc>>

\* lines 124-133: runCommands(['cat /app/tasks.json']); a status that is
\* not success throws
AnalyzeReadTasks ==
    /\ azPc = "read"
    /\ \E status \in {RUN_SUCCESS, RUN_FAILURE} :
         /\ azLog' = Append(azLog, <<"cat tasks.json", status>>)
         /\ IF status = RUN_SUCCESS
              THEN /\ azPc' = "parse"
                   /\ UNCHANGED <<azContainer, azPromise, azShutdownCalls>>
              ELSE AnalyzeThrow(<<"Failed to read tasks.json from Docker">>)
    /\ UNCHANGED <<azIn, azName, azTasks, mainPc>>

\* lines 135-148: tasks = JSON.parse(trimJSONObjectArray(output)); a parse
\* error is rethrown; otherwise finally runs and tasks is returned as parsed
AnalyzeParseAndReturn ==
    /\ azPc = "parse"
    /\ IF ~azIn.tasksJson.parses
         THEN /\ AnalyzeThrow(<<"Error parsing tasks.json">>)
              /\ UNCHANGED azTasks
         ELSE /\ azTasks' = azIn.tasksJson.value
              /\ azPc' = "settled"
              /\ azPromise' = [state |-> "resolved", msg |-> <<>>]
              /\ AnalyzeFinally
    /\ UNCHANGED <<azIn, azName, azLog, mainPc>>

\* main() line 73: analyzeCodebase(config, gitRemoteUrl) is called with the
\* default shutdownContainer = true and awaited
InitMain ==
    /\ AnalyzerCalled
    /\ azIn.shutdownContainer
    /\ mainPc = "analyze"

\* main() lines 73-84 after analyzeCodebase resolved: the manager is
\* constructed, every task is added in order, start() runs up to the first
\* test of its outer loop
MainStartManager ==
    /\ mainPc = "analyze"
    /\ azPromise.state = "resolved"
    /\ mainPc' = "manage"
    /\ tasks' = azTasks
    /\ taskQueue' = [i \in DOMAIN azTasks |-> i]
    /\ solvers' = [i \in DOMAIN azTasks |-> NoSolver]
    /\ mgrPc' = IF Len(azTasks) > 0 THEN "inner" ELSE "done"
    /\ UNCHANGED <<activeTasks, completedTasks, maxParallelDockerContainers, clock>>
    /\ UNCHANGED <<azIn, azPc, azName, azContainer, azTasks, azPromise, azShutdownCalls, azLog>>

\* main() line 73 when analyzeCodebase rejected: the await throws and
\* main() rejects (main().catch(console.error))
MainFails ==
    /\ mainPc = "analyze"
    /\ azPromise.state = "rejected"
    /\ mainPc' = "failed"
    /\ UNCHANGED mgrVars
    /\ UNCHANGED <<azIn, azPc, azName, azContainer, azTasks, azPromise, azShutdownCalls, azLog, clock>>

\* ------------------------------------------------------------------------
\* The JSON extractor (trimJSONSingleObject, then JSON.parse)
\* ------------------------------------------------------------------------
\* the longest string value inside a serialized object
MaxStringLen == 2

\* the longest text before and after the serialized object
MaxAffixLen == 1

\* Texts are sequences of characters.
StringChars == {"a", "{", "}", "\"", "\\"}
AffixChars == {"a", "{", "}", "\""}

\* the texts over an alphabet, up to a length
TextsOver(chars, n) == UNION {[1..k -> chars] : k \in 0..n}

\* JSON values: a string, or an object with its members in order
JsonString(chars) == [kind |-> "string", chars |-> chars, members |-> <<>>]
JsonObject(members) == [kind |-> "object", chars |-> <<>>, members |-> members]
Member(value) == [key |-> <<"k">>, value |-> value]

\* the objects an agent may serialize: {}, {"k": s}, {"k": {}}, {"k": {"k": s}}
JsonObjects ==
    LET strings == {JsonString(c) : c \in TextsOver(StringChars, MaxStringLen)}
        inner == {JsonObject(<<>>)} \cup {JsonObject(<<Member(v)>>) : v \in strings}
    IN  inner \cup {JsonObject(<<Member(v)>>) : v \in inner}

\* a string body, with quotes and backslashes escaped
RECURSIVE Escape(_)
Escape(chars) ==
    IF chars = <<>> THEN <<>>
    ELSE (IF Head(chars) \in {"\"", "\\"} THEN <<"\\", Head(chars)>> ELSE <<Head(chars)>>)
             \o Escape(Tail(chars))

\* JSON.stringify, without white space
RECURSIVE Serialize(_)
Serialize(json) ==
    IF json.kind = "string" THEN <<"\"">> \o Escape(json.chars) \o <<"\"">>
    ELSE IF json.members = <<>> THEN <<"{", "}">>
    ELSE <<"{">> \o Serialize(JsonString(json.members[1].key)) \o <<":">>
             \o Serialize(json.members[1].value) \o <<"}">>

ParseFails == [ok |-> FALSE, value |-> JsonObject(<<>>), rest |-> <<>>]

\* the body of a string literal up to its closing quote; a backslash must
\* be followed by a quote or a backslash
RECURSIVE ParseChars(_, _)
ParseChars(text, acc) ==
    IF text = <<>> THEN ParseFails
    ELSE IF Head(text) = "\"" THEN [ok |-> TRUE, value |-> JsonString(acc), rest |-> Tail(text)]
    ELSE IF Head(text) = "\\"
    THEN IF Len(text) >= 2 /\ text[2] \in {"\"", "\\"}
         THEN ParseChars(SubSeq(text, 3, Len(text)), Append(acc, text[2]))
         ELSE ParseFails
    ELSE ParseChars(Tail(text), Append(acc, Head(text)))

\* one JSON value at the head of the text
RECURSIVE ParseValue(_)
ParseValue(text) ==
    IF text = <<>> THEN ParseFails
    ELSE IF Head(text) = "\"" THEN ParseChars(Tail(text), <<>>)
    ELSE IF Head(text) # "{" THEN ParseFails
    ELSE IF Len(text) >= 2 /\ text[2] = "}"
    THEN [ok |-> TRUE, value |-> JsonObject(<<>>), rest |-> SubSeq(text, 3, Len(text))]
    ELSE LET key == ParseValue(Tail(text))
             value == ParseValue(Tail(key.rest))
         IN  IF ~key.ok \/ key.value.kind # "string" THEN ParseFails
             ELSE IF key.rest = <<>> \/ Head(key.rest) # ":" THEN ParseFails
             ELSE IF ~value.ok THEN ParseFails
             ELSE IF value.rest = <<>> \/ Head(value.rest) # "}" THEN ParseFails
             ELSE [ok |-> TRUE,
                   value |-> JsonObject(<<[key |-> key.value.chars, value |-> value.value]>>),
                   rest |-> Tail(value.rest)]

\* JSON.parse: the whole text is one value
JsonParse(text) ==
    LET parsed == ParseValue(text)
    IN  IF parsed.ok /\ parsed.rest = <<>> THEN [ok |-> TRUE, value |-> parsed.value]
        ELSE [ok |-> FALSE, value |-> JsonObject(<<>>)]

\* the index of the first character c of the text from index i on, 0 if none
RECURSIVE IndexOf(_, _, _)
IndexOf(text, c, i) ==
    IF i > Len(text) THEN 0
    ELSE IF text[i] = c THEN i
    ELSE IndexOf(text, c, i + 1)

\* for comparison: the scan counts every brace, inside string literals too
RECURSIVE MatchingBrace_CountsStrings(_, _, _, _, _)
MatchingBrace_CountsStrings(text, i, depth, inString, escaped) ==
    IF i > Len(text) THEN 0
    ELSE IF text[i] = "{" THEN MatchingBrace_CountsStrings(text, i + 1, depth + 1, FALSE, FALSE)
    ELSE IF text[i] = "}"
    THEN IF depth = 1 THEN i
         ELSE MatchingBrace_CountsStrings(text, i + 1, depth - 1, FALSE, FALSE)
    ELSE MatchingBrace_CountsStrings(text, i + 1, depth, FALSE, FALSE)

\* the scan from index i: depth counts the open braces, braces inside a
\* string literal are ignored, a backslash inside a string literal escapes
\* the next character; the index where depth returns to 0, 0 if never
RECURSIVE MatchingBrace(_, _, _, _, _)
MatchingBrace(text, i, depth, inString, escaped) ==
    IF i > Len(text) THEN 0
    ELSE IF escaped THEN MatchingBrace(text, i + 1, depth, inString, FALSE)
    ELSE IF inString
    THEN IF text[i] = "\\" THEN MatchingBrace(text, i + 1, depth, TRUE, TRUE)
         ELSE IF text[i] = "\"" THEN MatchingBrace(text, i + 1, depth, FALSE, FALSE)
         ELSE MatchingBrace(text, i + 1, depth, TRUE, FALSE)
    ELSE IF text[i] = "\"" THEN MatchingBrace(text, i + 1, depth, TRUE, FALSE)
    ELSE IF text[i] = "{" THEN MatchingBrace(text, i + 1, depth + 1, FALSE, FALSE)
    ELSE IF text[i] = "}"
    THEN IF depth = 1 THEN i ELSE MatchingBrace(text, i + 1, depth - 1, FALSE, FALSE)
    ELSE MatchingBrace(text, i + 1, depth, FALSE, FALSE)

\* trimJSONSingleObject: the text from the first opening brace to the
\* brace that matches it; NULL when there is no such pair
TrimJSONSingleObject(text) ==
    LET first == IndexOf(text, "{", 1)
        last == IF first = 0 THEN 0 ELSE MatchingBrace(text, first, 0, FALSE, FALSE)
    IN  IF first = 0 \/ last = 0 THEN [found |-> FALSE, text |-> <<>>]
        ELSE [found |-> TRUE, text |-> SubSeq(text, first, last)]

\* JSON.parse(trimJSONSingleObject(output)): the object, or a parse error
ExtractObject(text) ==
    LET trimmed == TrimJSONSingleObject(text)
    IN  IF ~trimmed.found THEN [ok |-> FALSE, value |-> JsonObject(<<>>)]
        ELSE JsonParse(trimmed.text)

\* some part of the text is a JSON object
HasBalancedObject(text) ==
    \E i \in DOMAIN text : \E j \in i..Len(text) :
        text[i] = "{" /\ JsonParse(SubSeq(text, i, j)).ok

\* the texts around the object: none of them holds a JSON object itself
Affixes == {t \in TextsOver(AffixChars, MaxAffixLen) : ~HasBalancedObject(t)}

IdleExtractor ==
    /\ txIn = NULL
    /\ txPc = "none"
    /\ txOut = NULL

\* an agent has written prefix + serialize(obj) + suffix
InitExtractor ==
    /\ txIn \in [obj : JsonObjects, prefix : Affixes, suffix : Affixes]
    /\ txPc = "call"
    /\ txOut = NULL
    /\ clock = 1

ExtractObjectCall ==
    /\ txPc = "call"
    /\ txOut' = ExtractObject(txIn.prefix \o Serialize(txIn.obj) \o txIn.suffix)
    /\ txPc' = "returned"
    /\ UNCHANGED txIn

\* ------------------------------------------------------------------------
\* Specifications
\* ------------------------------------------------------------------------
\* DockerInstance handles sharing one docker runtime (dockerInstance.ts)
\* ------------------------------------------------------------------------
MaxCalls == 3

\* two DockerInstance objects, as two solvers hold them
Handles == {1, 2}

\* dockerContainerName as the callers pass it: omitted, or a task's ID
RequestedNames == {NULL, "A"}

\* `copilot-docker-${Math.random()...}`: a name no other handle draws
RandomName(h) == IF h = 1 THEN "copilot-docker-1" ELSE "copilot-docker-2"

ContainerNames == {"A", "copilot-docker-1", "copilot-docker-2"}

NoContainer == [exists |-> FALSE, owner |-> 0, files |-> {}]

NoArgs == [requested |-> NULL, imageOk |-> TRUE, localPathExists |-> TRUE]

NoCall ==
    [handle |-> 0, op |-> "none", outcome |-> "none", message |-> "",
     docker |-> <<>>, before |-> [n \in ContainerNames |-> NoContainer],
     startedBefore |-> FALSE, prevHandle |-> 0, prevOp |-> "none",
     requested |-> NULL, imageOk |-> TRUE, localPathExists |-> TRUE]

IdleHandles ==
    /\ runtime = [n \in ContainerNames |-> NoContainer]
    /\ hName = [h \in Handles |-> NULL]
    /\ hStarted = [h \in Handles |-> FALSE]
    /\ calls = 0
    /\ lastCall = NoCall

\* constructor: containerName is null, nothing runs
InitHandles ==
    /\ IdleHandles
    /\ clock = 1

\* the docker daemon knows a container of this name
Exists(name) == name \in ContainerNames /\ runtime[name].exists

\* what a method call did, kept for the properties
Record(h, op, args, outcome, message, docker) ==
    /\ calls < MaxCalls
    /\ calls' = calls + 1
    /\ lastCall' = [handle |-> h, op |-> op, outcome |-> outcome, message |-> message,
                    docker |-> docker, before |-> runtime,
                    startedBefore |-> hStarted[h],
                    prevHandle |-> lastCall.handle, prevOp |-> lastCall.op,
                    requested |-> args.requested, imageOk |-> args.imageOk,
                    localPathExists |-> args.localPathExists]

AddFiles(name, marks) ==
    [runtime EXCEPT ![name].files = @ \cup marks]

\* startContainer(image, dockerContainerName?): the name is stored first,
\* then `docker run -d --name <name>` either starts the container or exits
\* non-zero (the name is taken, or the image cannot be run) and the method
\* throws. Every caller starts a handle once.
DockerStartContainer(h, requested, imageOk) ==
    LET name == IF requested # NULL THEN requested ELSE RandomName(h)
        started == ~Exists(name) /\ imageOk
    IN  /\ ~hStarted[h]
        /\ hName' = [hName EXCEPT ![h] = name]
        /\ hStarted' = [hStarted EXCEPT ![h] = TRUE]
        /\ runtime' = IF started
                      THEN [runtime EXCEPT ![name] = [exists |-> TRUE, owner |-> h, files |-> {}]]
                      ELSE runtime
        /\ Record(h, "startContainer",
                  [requested |-> requested, imageOk |-> imageOk, localPathExists |-> TRUE],
                  IF started THEN "returned" ELSE "threw",
                  IF started THEN name ELSE "Failed to start container",
                  <<"docker run">>)

\* for comparison: runCommands without the null check of lines 108-110
DockerRunCommands_NoGuard(h) ==
    /\ runtime' = IF Exists(hName[h]) THEN AddFiles(hName[h], {"ran"}) ELSE runtime
    /\ Record(h, "runCommands", NoArgs, "returned",
              IF Exists(hName[h]) THEN "success" ELSE "failure", <<"docker exec">>)
    /\ UNCHANGED <<hName, hStarted>>

\* runCommands(commands): throws on a null name, else runs the commands
\* with docker exec and returns a status (never throws past the guard)
DockerRunCommands(h) ==
    /\ IF hName[h] = NULL
       THEN /\ Record(h, "runCommands", NoArgs, "threw",
                      "Container name is null, cannot run commands", <<>>)
            /\ UNCHANGED runtime
       ELSE /\ runtime' = IF Exists(hName[h]) THEN AddFiles(hName[h], {"ran"}) ELSE runtime
            /\ Record(h, "runCommands", NoArgs, "returned",
                      IF Exists(hName[h]) THEN "success" ELSE "failure", <<"docker exec">>)
    /\ UNCHANGED <<hName, hStarted>>

\* runCommandAsync(command): the same guard, one docker exec
DockerRunCommandAsync(h) ==
    /\ IF hName[h] = NULL
       THEN /\ Record(h, "runCommandAsync", NoArgs, "threw",
                      "Container name is null, cannot run commands", <<>>)
            /\ UNCHANGED runtime
       ELSE /\ runtime' = IF Exists(hName[h]) THEN AddFiles(hName[h], {"ran"}) ELSE runtime
            /\ Record(h, "runCommandAsync", NoArgs, "returned",
                      IF Exists(hName[h]) THEN "success" ELSE "failure", <<"docker exec">>)
    /\ UNCHANGED <<hName, hStarted>>

\* copyFileToContainer(content, name): after a delay the guard; then
\* docker exec mkdir (a failure only warns) and docker cp (a failure throws)
DockerCopyFileToContainer(h, cpOk) ==
    /\ IF hName[h] = NULL
       THEN /\ Record(h, "copyFileToContainer", NoArgs, "threw",
                      "Container name is null, cannot copy file", <<>>)
            /\ UNCHANGED runtime
       ELSE IF Exists(hName[h]) /\ cpOk
       THEN /\ runtime' = AddFiles(hName[h], {"dir", "file"})
            /\ Record(h, "copyFileToContainer", NoArgs, "returned", "",
                      <<"docker exec mkdir", "docker cp">>)
       ELSE /\ runtime' = IF Exists(hName[h]) THEN AddFiles(hName[h], {"dir"}) ELSE runtime
            /\ Record(h, "copyFileToContainer", NoArgs, "threw",
                      "Failed to copy file to container", <<"docker exec mkdir", "docker cp">>)
    /\ UNCHANGED <<hName, hStarted>>

\* for comparison: copyFilesToContainer creating the target directory
\* before it looks at the local path
DockerCopyFilesToContainer_MkdirFirst(h, localPathExists, cpOk) ==
    LET args == [requested |-> NULL, imageOk |-> TRUE, localPathExists |-> localPathExists]
    IN  /\ IF hName[h] = NULL
           THEN /\ Record(h, "copyFilesToContainer", args, "threw",
                          "Container name is null, cannot copy files", <<>>)
                /\ UNCHANGED runtime
           ELSE IF ~Exists(hName[h])
           THEN /\ Record(h, "copyFilesToContainer", args, "threw",
                          "Failed to create target directory in container",
                          <<"docker exec mkdir">>)
                /\ UNCHANGED runtime
           ELSE IF ~localPathExists
           THEN /\ runtime' = AddFiles(hName[h], {"targetDir"})
                /\ Record(h, "copyFilesToContainer", args, "threw",
                          "Local path does not exist", <<"docker exec mkdir">>)
           ELSE IF ~cpOk
           THEN /\ runtime' = AddFiles(hName[h], {"targetDir"})
                /\ Record(h, "copyFilesToContainer", args, "threw",
                          "Failed to copy files to container",
                          <<"docker exec mkdir", "docker cp">>)
           ELSE /\ runtime' = AddFiles(hName[h], {"targetDir", "copied"})
                /\ Record(h, "copyFilesToContainer", args, "returned", "",
                          <<"docker exec mkdir", "docker cp">>)
        /\ UNCHANGED <<hName, hStarted>>

\* copyFilesToContainer(localPath, target): the guard; `test -e localPath`
\* on the host; docker exec mkdir -p (a failure throws); docker cp (a
\* failure throws)
DockerCopyFilesToContainer(h, localPathExists, cpOk) ==
    LET args == [requested |-> NULL, imageOk |-> TRUE, localPathExists |-> localPathExists]
    IN  /\ IF hName[h] = NULL
           THEN /\ Record(h, "copyFilesToContainer", args, "threw",
                          "Container name is null, cannot copy files", <<>>)
                /\ UNCHANGED runtime
           ELSE IF ~localPathExists
           THEN /\ Record(h, "copyFilesToContainer", args, "threw",
                          "Local path does not exist", <<>>)
                /\ UNCHANGED runtime
           ELSE IF ~Exists(hName[h])
           THEN /\ Record(h, "copyFilesToContainer", args, "threw",
                          "Failed to create target directory in container",
                          <<"docker exec mkdir">>)
                /\ UNCHANGED runtime
           ELSE IF ~cpOk
           THEN /\ runtime' = AddFiles(hName[h], {"targetDir"})
                /\ Record(h, "copyFilesToContainer", args, "threw",
                          "Failed to copy files to container",
                          <<"docker exec mkdir", "docker cp">>)
           ELSE /\ runtime' = AddFiles(hName[h], {"targetDir", "copied"})
                /\ Record(h, "copyFilesToContainer", args, "returned", "",
                          <<"docker exec mkdir", "docker cp">>)
        /\ UNCHANGED <<hName, hStarted>>

\* copyFileFromContainer(path): the guard, then docker cp to a temporary
\* file (a failure throws)
DockerCopyFileFromContainer(h, cpOk) ==
    /\ IF hName[h] = NULL
       THEN Record(h, "copyFileFromContainer", NoArgs, "threw",
                   "Container name is null, cannot copy file", <<>>)
       ELSE IF Exists(hName[h]) /\ cpOk
       THEN Record(h, "copyFileFromContainer", NoArgs, "returned", "", <<"docker cp">>)
       ELSE Record(h, "copyFileFromContainer", NoArgs, "threw",
                   "Failed to copy file from container", <<"docker cp">>)
    /\ UNCHANGED <<runtime, hName, hStarted>>

\* for comparison: a shutdown that stops the container and leaves it there
DockerShutdownContainer_StopOnly(h) ==
    /\ IF hName[h] # NULL
       THEN Record(h, "shutdownContainer", NoArgs, "returned", "", <<"docker stop">>)
       ELSE Record(h, "shutdownContainer", NoArgs, "returned", "", <<>>)
    /\ UNCHANGED <<runtime, hName, hStarted>>

\* shutdownContainer(): `docker rm -f <containerName>` when the name is
\* set, its result unread; a log line otherwise. containerName is kept.
DockerShutdownContainer(h) ==
    /\ IF hName[h] # NULL
       THEN /\ runtime' = [runtime EXCEPT ![hName[h]] = NoContainer]
            /\ Record(h, "shutdownContainer", NoArgs, "returned", "", <<"docker rm -f">>)
       ELSE /\ UNCHANGED runtime
            /\ Record(h, "shutdownContainer", NoArgs, "returned", "", <<>>)
    /\ UNCHANGED <<hName, hStarted>>

\* ------------------------------------------------------------------------
\* WorkflowOrchestrator.processRequirement (workflowOrchestrator.ts)
\* ------------------------------------------------------------------------
\* WorkflowState
WorkflowStates ==
    {"collecting", "analyzing", "matching", "optimizing", "creating_issue",
     "executing", "creating_mr", "completed", "failed", "skipped"}

\* the awaited call of a collaborator that rejects, if any
FailPoints ==
    {"none", "matching", "selecting", "optimizing", "creating_issue",
     "creating_mr", "reporting"}

\* context.taskResult: not assigned, assigned undefined, or a result object
NoResult == [assigned |-> FALSE, defined |-> FALSE, success |-> FALSE]
UndefinedResult == [assigned |-> TRUE, defined |-> FALSE, success |-> FALSE]

\* const context = { state: 'analyzing', requirement, startTime: new Date() }
NewContext ==
    [state |-> "analyzing", project |-> FALSE, optimizedPrompt |-> FALSE,
     issue |-> FALSE, taskResult |-> NoResult, mergeRequest |-> FALSE,
     error |-> NULL, endTime |-> FALSE, comments |-> <<>>]

IdleWorkflow ==
    /\ wfIn = NULL
    /\ wfPc = "none"
    /\ context = NULL
    /\ wfSettled = "none"

\* processRequirement(requirement) has built its context; wfIn says what
\* the project matcher, the prompt optimizer, the issue manager and the
\* solver will do
InitWorkflow ==
    /\ wfIn \in [autoApprove : BOOLEAN, autoClose : BOOLEAN, selects : BOOLEAN,
                 failAt : FailPoints, solve : {"resolves", "rejects"},
                 commentFails : BOOLEAN]
    /\ wfPc = "matching"
    /\ context = NewContext
    /\ wfSettled = "none"
    /\ clock = 1

\* return context
ReturnContext(ctx) ==
    /\ context' = ctx
    /\ wfPc' = "done"
    /\ wfSettled' = "returned"

\* for comparison: a catch block that leaves endTime unset
CatchBlock_NoEndTime(ctx, message) ==
    [ctx EXCEPT !.state = "failed", !.error = message]

\* catch (error): state failed, error and endTime set; when issue and
\* project are set a comment is added to the issue, and a failure of that
\* is logged and swallowed
CatchBlock(ctx, message) ==
    [ctx EXCEPT !.state = "failed", !.error = message, !.endTime = TRUE,
                !.comments = IF ctx.issue /\ ctx.project /\ ~wfIn.commentFails
                             THEN Append(@, "failure comment") ELSE @]

\* lines 166-190: matchRequirement, then autoApprove or interactiveSelect;
\* no selection returns the context as skipped
ProcessMatch ==
    /\ wfPc = "matching"
    /\ LET ctx == [context EXCEPT !.state = "matching"]
       IN  IF wfIn.failAt \in {"matching", "selecting"}
           THEN ReturnContext(CatchBlock(ctx, wfIn.failAt))
           ELSE IF ~wfIn.selects
           THEN ReturnContext([ctx EXCEPT !.state = "skipped", !.endTime = TRUE])
           ELSE /\ context' = [ctx EXCEPT !.project = TRUE]
                /\ wfPc' = "optimizing"
                /\ UNCHANGED wfSettled
    /\ UNCHANGED wfIn

\* lines 193-203: optimizeRequirement
ProcessOptimize ==
    /\ wfPc = "optimizing"
    /\ LET ctx == [context EXCEPT !.state = "optimizing"]
       IN  IF wfIn.failAt = "optimizing"
           THEN ReturnContext(CatchBlock(ctx, wfIn.failAt))
           ELSE /\ context' = [ctx EXCEPT !.optimizedPrompt = TRUE]
                /\ wfPc' = "creating_issue"
                /\ UNCHANGED wfSettled
    /\ UNCHANGED wfIn

\* lines 206-218: extractProjectId, createIssueFromRequirement
ProcessCreateIssue ==
    /\ wfPc = "creating_issue"
    /\ LET ctx == [context EXCEPT !.state = "creating_issue"]
       IN  IF wfIn.failAt = "creating_issue"
           THEN ReturnContext(CatchBlock(ctx, wfIn.failAt))
           ELSE /\ context' = [ctx EXCEPT !.issue = TRUE]
                /\ wfPc' = "executing"
                /\ UNCHANGED wfSettled
    /\ UNCHANGED wfIn

\* executeTask: `const result = await taskSolver.solve(...)`; `return result`.
\* TaskSolver.solve has no return statement: when it resolves, the value is
\* undefined; when it rejects, executeTask rejects.
ExecuteTask ==
    IF wfIn.solve = "rejects"
    THEN [threw |-> TRUE, result |-> NoResult]
    ELSE [threw |-> FALSE, result |-> UndefinedResult]

\* lines 221-285: executeTask; `!context.taskResult.success` (a TypeError
\* on undefined, a throw on a result without success); the merge request,
\* its link and the comments on the issue; state completed, endTime, return
ProcessExecute ==
    /\ wfPc = "executing"
    /\ LET ctx == [context EXCEPT !.state = "executing"]
           done == ExecuteTask
           got == [ctx EXCEPT !.taskResult = done.result]
           atMR == [got EXCEPT !.state = "creating_mr"]
           withMR == [atMR EXCEPT !.mergeRequest = TRUE]
       IN  IF done.threw
           THEN ReturnContext(CatchBlock(ctx, "solve rejected"))
           ELSE IF ~done.result.defined
           THEN ReturnContext(CatchBlock(got, "TypeError"))
           ELSE IF ~done.result.success
           THEN ReturnContext(CatchBlock(got, "task execution failed"))
           ELSE IF wfIn.failAt = "creating_mr"
           THEN ReturnContext(CatchBlock(atMR, wfIn.failAt))
           ELSE IF wfIn.failAt = "reporting"
           THEN ReturnContext(CatchBlock(withMR, wfIn.failAt))
           ELSE ReturnContext([withMR EXCEPT
                                 !.state = "completed", !.endTime = TRUE,
                                 !.comments = @ \o <<"execution report">>
                                                \o (IF wfIn.autoClose THEN <<"closing">> ELSE <<>>)])
    /\ UNCHANGED wfIn

\* ------------------------------------------------------------------------
\* no cancellation has been signalled
NotCancelled == cancelled = FALSE

\* The Orchestrator signals cancellation while start() runs. main() holds
\* no handle on a running start() and TaskSolverManager has no method or
\* field for it: the signal changes nothing the scheduler reads.
Cancel ==
    /\ mgrPc \in {"inner", "sleep"}
    /\ ~cancelled
    /\ cancelled' = TRUE
    /\ UNCHANGED <<mgrVars, clock, svVars, ccVars, dkVars, cfVars, azVars, txVars, hdVars, wfVars>>

NextSolver ==
    \/ SolveStartContainer /\ UNCHANGED otherThanSolver
    \/ SolveIgnoredCommand("mkdirSsh", "mkdir /root/.ssh", "copySsh") /\ UNCHANGED otherThanSolver
    \/ SolveCopyIn("copySsh", "docker cp .ssh", svIn.sshDir, "copyGitConfig") /\ UNCHANGED otherThanSolver
    \/ SolveCopyIn("copyGitConfig", "docker cp .gitconfig", svIn.gitConfig, "rmSshConfig") /\ UNCHANGED otherThanSolver
    \/ SolveIgnoredCommand("rmSshConfig", "rm -f /root/.ssh/config", "mkdirApp") /\ UNCHANGED otherThanSolver
    \/ SolveIgnoredCommand("mkdirApp", "mkdir -p /app", "copyPrompt") /\ UNCHANGED otherThanSolver
    \/ SolveCopyIn("copyPrompt", "docker cp taskSolverPrompt.txt", TRUE, "commands") /\ UNCHANGED otherThanSolver
    \/ SolveBuildCommands /\ UNCHANGED otherThanSolver
    \/ SolveProvision /\ UNCHANGED otherThanSolver
    \/ SolveAgent /\ UNCHANGED otherThanSolver
    \/ SolveReadReport /\ UNCHANGED otherThanSolver
    \/ SolveReadDiff /\ UNCHANGED otherThanSolver
    \/ SolveFinish /\ UNCHANGED otherThanSolver

IdleManager ==
    /\ tasks = <<>>
    /\ taskQueue = <<>>
    /\ activeTasks = <<>>
    /\ completedTasks = <<>>
    /\ maxParallelDockerContainers = 1
    /\ mgrPc = "none"
    /\ solvers = <<>>

SolverInit ==
    InitSolver /\ IdleManager /\ IdleCommitter /\ IdleDocker /\ IdleConfig /\ IdleAnalyzer /\ IdleExtractor /\ IdleHandles /\ IdleWorkflow /\ NotCancelled

SpecSolver == SolverInit /\ [][NextSolver]_vars

MgrStep ==
    /\ StartCall \/ Dispatch \/ InnerExit \/ Wake
    /\ UNCHANGED otherThanMgr

SolverSettles ==
    /\ \E t \in DOMAIN solvers : SolveResolves(t) \/ SolveRejects(t)
    /\ UNCHANGED otherThanMgr

NextManager ==
    \/ (\E task \in Task : AddTask(task)) /\ UNCHANGED otherThanMgr
    \/ StartCall /\ UNCHANGED otherThanMgr
    \/ Dispatch /\ UNCHANGED otherThanMgr
    \/ InnerExit /\ UNCHANGED otherThanMgr
    \/ Wake /\ UNCHANGED otherThanMgr
    \/ (\E t \in DOMAIN solvers : SolveResolves(t)) /\ UNCHANGED otherThanMgr
    \/ (\E t \in DOMAIN solvers : SolveRejects(t)) /\ UNCHANGED otherThanMgr

ManagerInit ==
    InitManager /\ IdleSolver /\ IdleCommitter /\ IdleDocker /\ IdleConfig /\ IdleAnalyzer /\ IdleExtractor /\ IdleHandles /\ IdleWorkflow /\ NotCancelled

SpecManager == ManagerInit /\ [][NextManager]_vars

\* The timer of start() always fires, and every solve() in flight settles
\* while start() is suspended (the claim's assumption; SF because start()
\* leaves the event loop no turn while it runs its synchronous part).
LiveManager ==
    /\ ManagerInit /\ [][NextManager]_vars
    /\ WF_vars(MgrStep)
    /\ SF_vars(SolverSettles)

\* the scheduler in a run where the Orchestrator may signal cancellation
NextManagerCancel ==
    \/ NextManager
    \/ Cancel

SpecManagerCancel == ManagerInit /\ [][NextManagerCancel]_vars

NextDocker ==
    \/ RunCommandsCall /\ UNCHANGED otherThanDocker
    \/ RunCommandsExec /\ UNCHANGED otherThanDocker
    \/ RunCommandsReturn /\ UNCHANGED otherThanDocker

DockerInit == InitDocker /\ IdleManager /\ IdleCommitter /\ IdleConfig /\ IdleAnalyzer /\ IdleExtractor /\ IdleHandles /\ IdleWorkflow /\ NotCancelled

SpecDocker == DockerInit /\ [][NextDocker]_vars

NextCommitter ==
    \/ ProcessNext /\ UNCHANGED otherThanCommitter
    \/ ReturnSummary /\ UNCHANGED otherThanCommitter

NextConfig ==
    \/ ReadConfigCall /\ UNCHANGED otherThanConfig
    \/ ReadConfigWithEnvOverrideCall /\ UNCHANGED otherThanConfig

ConfigInit ==
    /\ InitConfig /\ IdleManager /\ IdleSolver /\ IdleCommitter /\ IdleDocker
    /\ IdleAnalyzer /\ IdleExtractor /\ IdleHandles /\ IdleWorkflow /\ NotCancelled

SpecConfig == ConfigInit /\ [][NextConfig]_vars

NextAnalyzer ==
    \/ AnalyzeStartContainer /\ UNCHANGED otherThanAnalyzer
    \/ AnalyzeMkdir /\ UNCHANGED otherThanAnalyzer
    \/ AnalyzeCopyPrompt /\ UNCHANGED otherThanAnalyzer
    \/ AnalyzeBuildCommands /\ UNCHANGED otherThanAnalyzer
    \/ AnalyzeRunCommands /\ UNCHANGED otherThanAnalyzer
    \/ AnalyzeReadTasks /\ UNCHANGED otherThanAnalyzer
    \/ AnalyzeParseAndReturn /\ UNCHANGED otherThanAnalyzer

AnalyzerInit ==
    /\ InitAnalyzer /\ IdleManager /\ IdleSolver /\ IdleCommitter /\ IdleDocker
    /\ IdleConfig /\ IdleExtractor /\ IdleHandles /\ IdleWorkflow /\ NotCancelled

SpecAnalyzer == AnalyzerInit /\ [][NextAnalyzer]_vars

\* the manager of main(): config.maxParallelDockerContainers, nothing added yet
MainManager ==
    /\ tasks = <<>>
    /\ taskQueue = <<>>
    /\ activeTasks = <<>>
    /\ completedTasks = <<>>
    /\ \E c \in 0..MaxParallel : maxParallelDockerContainers = EffectiveMaxParallel(c)
    /\ mgrPc = "none"
    /\ solvers = <<>>

NextMain ==
    \/ AnalyzeStartContainer /\ UNCHANGED otherThanAnalyzer
    \/ AnalyzeMkdir /\ UNCHANGED otherThanAnalyzer
    \/ AnalyzeCopyPrompt /\ UNCHANGED otherThanAnalyzer
    \/ AnalyzeBuildCommands /\ UNCHANGED otherThanAnalyzer
    \/ AnalyzeRunCommands /\ UNCHANGED otherThanAnalyzer
    \/ AnalyzeReadTasks /\ UNCHANGED otherThanAnalyzer
    \/ AnalyzeParseAndReturn /\ UNCHANGED otherThanAnalyzer
    \/ MainStartManager /\ UNCHANGED <<svVars, ccVars, dkVars, cfVars, txVars, hdVars, wfVars, cancelled>>
    \/ MainFails /\ UNCHANGED <<svVars, ccVars, dkVars, cfVars, txVars, hdVars, wfVars, cancelled>>
    \/ Dispatch /\ UNCHANGED otherThanMgr
    \/ InnerExit /\ UNCHANGED otherThanMgr
    \/ Wake /\ UNCHANGED otherThanMgr
    \/ (\E t \in DOMAIN solvers : SolveResolves(t)) /\ UNCHANGED otherThanMgr
    \/ (\E t \in DOMAIN solvers : SolveRejects(t)) /\ UNCHANGED otherThanMgr

MainInit ==
    /\ InitMain /\ MainManager /\ IdleSolver /\ IdleCommitter /\ IdleDocker
    /\ IdleConfig /\ IdleExtractor /\ IdleHandles /\ IdleWorkflow /\ NotCancelled

SpecMain == MainInit /\ [][NextMain]_vars

NextExtractor ==
    ExtractObjectCall /\ UNCHANGED otherThanExtractor

ExtractorInit ==
    /\ InitExtractor /\ IdleManager /\ IdleSolver /\ IdleCommitter /\ IdleDocker
    /\ IdleConfig /\ IdleAnalyzer /\ IdleHandles /\ IdleWorkflow /\ NotCancelled

SpecExtractor == ExtractorInit /\ [][NextExtractor]_vars

CommitterInit ==
    InitCommitter /\ IdleManager /\ IdleSolver /\ IdleDocker /\ IdleConfig /\ IdleAnalyzer /\ IdleExtractor /\ IdleHandles /\ IdleWorkflow /\ NotCancelled

SpecCommitter == CommitterInit /\ [][NextCommitter]_vars

NextHandles ==
    \/ \E h \in Handles, requested \in RequestedNames, imageOk \in BOOLEAN :
          DockerStartContainer(h, requested, imageOk) /\ UNCHANGED otherThanHandles
    \/ \E h \in Handles : DockerRunCommands(h) /\ UNCHANGED otherThanHandles
    \/ \E h \in Handles : DockerRunCommandAsync(h) /\ UNCHANGED otherThanHandles
    \/ \E h \in Handles, cpOk \in BOOLEAN :
          DockerCopyFileToContainer(h, cpOk) /\ UNCHANGED otherThanHandles
    \/ \E h \in Handles, localPathExists \in BOOLEAN, cpOk \in BOOLEAN :
          DockerCopyFilesToContainer(h, localPathExists, cpOk) /\ UNCHANGED otherThanHandles
    \/ \E h \in Handles, cpOk \in BOOLEAN :
          DockerCopyFileFromContainer(h, cpOk) /\ UNCHANGED otherThanHandles
    \/ \E h \in Handles : DockerShutdownContainer(h) /\ UNCHANGED otherThanHandles

HandlesInit ==
    /\ InitHandles /\ IdleManager /\ IdleSolver /\ IdleCommitter /\ IdleDocker
    /\ IdleConfig /\ IdleAnalyzer /\ IdleExtractor /\ IdleWorkflow /\ NotCancelled

SpecHandles == HandlesInit /\ [][NextHandles]_vars

NextWorkflow ==
    \/ ProcessMatch /\ UNCHANGED otherThanWorkflow
    \/ ProcessOptimize /\ UNCHANGED otherThanWorkflow
    \/ ProcessCreateIssue /\ UNCHANGED otherThanWorkflow
    \/ ProcessExecute /\ UNCHANGED otherThanWorkflow

WorkflowInit ==
    /\ InitWorkflow /\ IdleManager /\ IdleSolver /\ IdleCommitter /\ IdleDocker
    /\ IdleConfig /\ IdleAnalyzer /\ IdleExtractor /\ IdleHandles /\ NotCancelled

SpecWorkflow == WorkflowInit /\ [][NextWorkflow]_vars

\* ------------------------------------------------------------------------
\* Properties of TaskSolverManager
\* ------------------------------------------------------------------------
Range(seq) == {seq[k] : k \in DOMAIN seq}

\* solvers whose solve() has been called and has not settled
InFlight == {t \in DOMAIN solvers : solvers[t].solve = "pending"}

CountID(seq, id) == Cardinality({k \in DOMAIN seq : seq[k].ID = id})

UniqueIDs == \A i, j \in DOMAIN tasks : tasks[i].ID = tasks[j].ID => i = j

\* C1: the number of solve() calls in flight at the same time never exceeds
\* maxParallelDockerContainers, for every task list.
C1_InFlightWithinCap == Cardinality(InFlight) <= maxParallelDockerContainers

\* C1, for task lists with pairwise distinct IDs only.
C1_InFlightWithinCapUniqueIDs == UniqueIDs => C1_InFlightWithinCap

\* C2: when start() has returned, getReports() holds exactly one TaskResult
\* per added task: the same multiset of IDs.
C2_OneResultPerTask ==
    mgrPc = "done" =>
        \A id \in TaskIDs : CountID(completedTasks, id) = CountID(tasks, id)

\* C2, for task lists with pairwise distinct IDs only.
C2_OneResultPerTaskUniqueIDs == UniqueIDs => C2_OneResultPerTask

C4_FailureIsolation ==
    /\ [](\A t \in DOMAIN solvers :
            /\ solvers[t].startTask # "rejected"
            /\ solvers[t].solve = "rejected" =>
                  \E k \in DOMAIN completedTasks :
                     /\ completedTasks[k].ID = tasks[t].ID
                     /\ completedTasks[k].completedAt = solvers[t].at
                     /\ completedTasks[k].status = FAILURE
                     /\ Range(solvers[t].msg) \subseteq Range(completedTasks[k].report)
            /\ solvers[t].solve = "resolved" =>
                  \E k \in DOMAIN completedTasks :
                     /\ completedTasks[k].ID = tasks[t].ID
                     /\ completedTasks[k].completedAt = solvers[t].at
                     /\ completedTasks[k].status = solvers[t].status)
    /\ [](mgrPc = "done" => \A t \in DOMAIN solvers : solvers[t].solve # "none")
    /\ [][\A k \in DOMAIN completedTasks :
             k \in DOMAIN completedTasks' /\ completedTasks'[k] = completedTasks[k]]_vars

C4_Witness ==
    /\ mgrPc = "done"
    /\ \E t, u \in DOMAIN solvers :
          /\ solvers[t].solve = "rejected"
          /\ solvers[u].solve = "resolved"
          /\ solvers[t].at < solvers[u].at
          /\ \E k \in DOMAIN completedTasks :
                completedTasks[k].completedAt = solvers[u].at /\ completedTasks[k].status = SUCCESS

\* ------------------------------------------------------------------------
\* Properties of TaskSolver.solve
\* ------------------------------------------------------------------------

\* C5: with shutdown enabled, whenever solve() has settled after calling
\* startContainer, it has called shutdownContainer, so the container it
\* started is not left running.
C5_ShutdownOnEveryExit ==
    (svPc = "settled" /\ svIn.shutdown /\ containerName # NULL) =>
        (shutdownCalls >= 1 /\ container # "running")

\* C5 restricted to the exits from the last try block of solve() (parse
\* failure, patch read failure, normal return), where the finally block is.
C5_ShutdownAfterReport ==
    (svPc = "settled" /\ svIn.shutdown /\ <<"cat finalReport">> \in Range(svLog)) =>
        (shutdownCalls = 1 /\ container = "removed")

C5_WitnessAfterReport ==
    /\ svPc = "settled" /\ svIn.shutdown /\ svPromise.state = "rejected"
    /\ <<"docker cp git_diff">> \in Range(svLog)
    /\ container = "removed"

\* ------------------------------------------------------------------------
\* Properties of CodeCommitter
\* ------------------------------------------------------------------------
\* the records pushed so far, with the TaskResult each one is about
Processed == DOMAIN ccAcc.results

\* a patch that is undefined, empty or made of whitespace only
BlankPatch(gitDiff) == gitDiff = Undefined \/ \A k \in DOMAIN gitDiff : gitDiff[k] \in Whitespace

TaskBranches == {b \in DOMAIN repo.branches : b.kind = "task"}

\* the branch recorded for input i exists, is named task-<ID>-<timestamp>,
\* its tip contains the patch and the parent of its tip is the anchor
BranchCarriesPatch(i) ==
    LET tr == ccIn.taskResults[i]
        name == ccAcc.results[i].branchName
    IN  /\ name.kind = "task" /\ name.id = tr.ID
        /\ name \in DOMAIN repo.branches
        /\ repo.branches[name] # originalGitNode
        /\ repo.commits[repo.branches[name]].parent = originalGitNode
        /\ PatchFiles(tr.gitDiff) \subseteq repo.commits[repo.branches[name]].tree
        /\ \A j \in Processed : j # i => ccAcc.results[j].branchName # name

\* C6: when commitAllChanges() returns, HEAD resolves to the commit the
\* constructor recorded as the anchor, whatever happened to each task.
C6_HeadAtAnchorOnReturn ==
    ccPc = "returned" =>
        /\ originalGitNode = GitRevParseHead(ccIn.repo)
        /\ GitRevParseHead(repo) = originalGitNode

\* a run that returned after committing one task and failing to apply another
C6_Witness ==
    /\ ccPc = "returned"
    /\ GitRevParseHead(repo) = originalGitNode
    /\ \E i, j \in Processed :
          /\ ccAcc.results[i].success /\ ccAcc.results[i].branchName # NoBranch
          /\ ccAcc.results[j].error = "Failed to apply git diff"

C8_EmptyPatchIsNoOp ==
    [][(/\ ccPc = "loop" /\ ccIdx' = ccIdx + 1
        /\ ValidateTaskResult(ccIn.taskResults[ccIdx]) = NULL
        /\ BlankPatch(ccIn.taskResults[ccIdx].gitDiff))
       => /\ ccAcc'.results[ccIdx].success
          /\ ccAcc'.results[ccIdx].branchName = NoBranch
          /\ ccAcc'.results[ccIdx].error = NULL
          /\ repo' = repo
          /\ stashedChanges' = stashedChanges]_vars

\* a whitespace-only patch was processed in a dirty working tree, which is
\* still dirty
C8_Witness ==
    \E i \in Processed :
        /\ ccIn.taskResults[i].gitDiff = <<" ", "\n">>
        /\ ccAcc.results[i].success
        /\ ccAcc.results[i].branchName = NoBranch
        /\ ccIdx = i + 1
        /\ repo = ccIn.repo
        /\ repo.mods # {} /\ repo.untracked # {}

\* commitAllChanges() on a list, from a committer state: the records it pushes
RECURSIVE RunAll(_, _)
RunAll(cs, list) ==
    IF list = <<>> THEN <<>>
    ELSE LET out == ProcessTaskResult(cs, Head(list))
         IN  <<[taskId |-> Head(list).ID, success |-> out.result.success,
                error |-> out.result.error, branch |-> out.result.branchName.kind]>>
             \o RunAll(out.cs, Tail(list))

RemoveAt(list, i) == SubSeq(list, 1, i - 1) \o SubSeq(list, i + 1, Len(list))

\* what is compared between two runs: everything but the timestamp
Outcome(res) ==
    [taskId |-> res.taskId, success |-> res.success, error |-> res.error,
     branch |-> res.branchName.kind]

\* C9: a task that fails is recorded with success = false and an error text,
\* and every later task has the outcome it has when the list is processed
\* without the failing task.
C9_FailureIsolated ==
    ccPc = "returned" =>
        \A i \in Processed :
            ~ccAcc.results[i].success =>
                /\ ccAcc.results[i].error # NULL
                /\ LET without == RunAll([repo |-> ccIn.repo, stashedChanges |-> FALSE, now |-> 1],
                                         RemoveAt(ccIn.taskResults, i))
                   IN  \A j \in Processed :
                           j > i => Outcome(ccAcc.results[j]) = without[j - 1]

\* C10: the summary has totalTasks = length of the input = successfulTasks +
\* failedTasks, and one record per input, in input order, carrying the
\* input's ID.
C10_SummaryTotals ==
    ccPc = "returned" =>
        /\ summary.totalTasks = Len(ccIn.taskResults)
        /\ summary.totalTasks = summary.successfulTasks + summary.failedTasks
        /\ Len(summary.results) = Len(ccIn.taskResults)
        /\ \A i \in DOMAIN summary.results :
              summary.results[i].taskId = ccIn.taskResults[i].ID

\* a summary of one failed and one committed task with different IDs
C10_Witness ==
    /\ ccPc = "returned"
    /\ summary.totalTasks = 2
    /\ summary.successfulTasks = 1 /\ summary.failedTasks = 1
    /\ summary.results[1].taskId # summary.results[2].taskId

\* ------------------------------------------------------------------------
\* Properties of the scheduler: ordering
\* ------------------------------------------------------------------------
\* the tasks that name task t in their followingTasks
Predecessors(t) ==
    {p \in DOMAIN tasks : p # t /\ tasks[t].ID \in Range(tasks[p].followingTasks)}

Started(t) == solvers[t].solve # "none"

Terminal(t) == solvers[t].solve \in {"resolved", "rejected"}

\* C11: a task named in another task's followingTasks is dispatched only
\* after at least one of its predecessors has reached a terminal state (a
\* predecessor that is terminal stays terminal, so the state predicate fails
\* exactly when a successor is started too early).
C11_SuccessorAfterPredecessor ==
    \A t \in DOMAIN solvers :
        (Started(t) /\ Predecessors(t) # {}) => \E p \in Predecessors(t) : Terminal(p)

\* C12: solvers are started in the order of addTask: a task added later is
\* never started before a task added earlier (a task reference is its rank
\* in the order of addTask); the order in which they finish is free.
C12_StartedInAddOrder ==
    \A t1, t2 \in DOMAIN solvers : (t1 < t2 /\ Started(t2)) => Started(t1)

\* two tasks were started in order and the later one has finished first
C12_Witness ==
    /\ Len(tasks) >= 2
    /\ Started(1) /\ ~Terminal(1)
    /\ Terminal(2)
    /\ completedTasks # <<>> /\ completedTasks[1].ID = tasks[2].ID

\* C13: once cancellation has been signalled during start(), no solver is
\* started any more and the results already recorded stay as they are.
\* (The third part of the claim, that every active solver is signalled to
\* abandon, has nothing to refer to: a solver has no such entry point.)
C13_NoDispatchAfterCancel ==
    [][cancelled =>
          /\ \A t \in DOMAIN solvers : Started(t)' => Started(t)
          /\ SubSeq(completedTasks', 1, Len(completedTasks)) = completedTasks]_vars

C15_BatchTimeoutStatus ==
    (dkPc = "returned" /\ dkIn.timeoutSeconds > 0 /\ dkElapsed > dkIn.timeoutSeconds)
        => dkRes.status = RUN_TIMEOUT

\* ------------------------------------------------------------------------
\* Properties of TaskSolver.solve: timeouts, patches, provisioning
\* ------------------------------------------------------------------------
\* C16: when the agent-invocation command ran into dockerTimeoutSeconds
\* (runCommandAsync reported status timeout), solve() ends with the
\* container removed and with an error that names the timeout, which the
\* scheduler records as the report of a failure result.
C16_AgentTimeoutRemovesContainer ==
    (svPc = "settled" /\ svIn.shutdown /\ <<"agent", RUN_TIMEOUT>> \in Range(svLog)) =>
        /\ svPromise.state = "rejected"
        /\ RUN_TIMEOUT \in Range(svPromise.msg)
        /\ container = "removed"

\* C17: when the final report has status success and /app/git_diff.txt is
\* empty or absent, solve() completes without error and the TaskResult has
\* status success.
C17_EmptyOrAbsentPatchIsSuccess ==
    (/\ svPc = "settled"
     /\ <<"docker cp git_diff">> \in Range(svLog)
     /\ svIn.patchFile \in {NULL, ""})
        => (svPromise.state = "resolved" /\ taskResult.status = SUCCESS)

IsProvision(entry) == entry[1] = "provision"

\* the provisioning commands solve() has run, with the status of each
Provisioned == SelectSeq(svLog, IsProvision)

\* C18: provisioning commands run in list order; the first one that returns
\* a non-success status is the last docker operation of solve(), which
\* rejects; the agent-invocation command runs only after the prompt has
\* been copied and every provisioning command has returned success.
C18_ProvisioningGatesAgent ==
    /\ \A k \in DOMAIN Provisioned :
          /\ Provisioned[k][2] = k
          /\ Provisioned[k][3] # RUN_SUCCESS =>
                /\ k = Len(Provisioned)
                /\ svLog[Len(svLog)] = Provisioned[k]
                /\ svPc = "settled"
                /\ svPromise.state = "rejected"
    /\ \A i \in DOMAIN svLog :
          svLog[i][1] = "agent" =>
              /\ Len(Provisioned) = svIn.provisioning
              /\ \A k \in DOMAIN Provisioned : Provisioned[k][3] = RUN_SUCCESS
              /\ \E j \in 1..(i - 1) : svLog[j] = <<"docker cp taskSolverPrompt.txt">>
              /\ \A j \in DOMAIN svLog : IsProvision(svLog[j]) => j < i

\* the second of two provisioning commands failed and solve() rejected
C18_Witness ==
    /\ svPc = "settled"
    /\ svIn.provisioning = 2
    /\ Len(Provisioned) = 2
    /\ Provisioned[1][3] = RUN_SUCCESS
    /\ Provisioned[2][3] = RUN_FAILURE
    /\ svPromise.state = "rejected"

\* ------------------------------------------------------------------------
\* Properties of ConfigReader
\* ------------------------------------------------------------------------
\* a Config the call returned
ConfigReturned == cfPc = "returned" /\ ~cfOut.result.threw

\* C19: every Config that readConfig() or readConfigWithEnvOverride()
\* returns has minTasks <= maxTasks and
\* maxParallelDockerContainers <= maxDockerContainers.
C19_ReturnedConfigKeepsConstraints ==
    ConfigReturned =>
        /\ cfOut.result.config["minTasks"] <= cfOut.result.config["maxTasks"]
        /\ cfOut.result.config["maxParallelDockerContainers"]
               <= cfOut.result.config["maxDockerContainers"]

\* the FSC_* variable of the field is set to a text that is a number
EnvDefines(f) == Has(cfIn.env, f) /\ ~ParseInt(cfIn.env[f]).nan

FileDefines(file, f) == file.kind = "json" /\ Has(file.json, f)

\* the value of the first source that defines the field, in the order
\* environment, project file, user file, default
FirstDefined(f) ==
    IF EnvDefines(f) THEN ParseInt(cfIn.env[f]).number
    ELSE IF FileDefines(cfIn.projectFile, f) THEN cfIn.projectFile.json[f]
    ELSE IF FileDefines(cfIn.userFile, f) THEN cfIn.userFile.json[f]
    ELSE DEFAULT_CONFIG[f]

\* C20: every field of the Config readConfigWithEnvOverride() returns has
\* the value of the first source that defines it, in the order FSC_*
\* variable, project file, user file, default.
C20_FirstDefinedSourceWins ==
    (ConfigReturned /\ cfOut.op = "readConfigWithEnvOverride") =>
        \A f \in ConfigFields : cfOut.result.config[f] = FirstDefined(f)

\* the files readConfig() read passed validateConfig, alone and merged
FilesAccepted ==
    /\ cfIn.userFile.kind # "garbled"
    /\ cfIn.projectFile.kind # "garbled"
    /\ ~ValidateConfigThrows(cfIn.userFile.json)
    /\ ~ValidateConfigThrows(cfIn.projectFile.json)
    /\ ~ValidateConfigThrows(Spread(cfIn.userFile.json, cfIn.projectFile.json))

\* when no file was rejected, the first source that defines a field wins
PrecedenceWhenFilesAccepted ==
    (ConfigReturned /\ cfOut.op = "readConfigWithEnvOverride" /\ FilesAccepted) =>
        \A f \in ConfigFields : cfOut.result.config[f] = FirstDefined(f)

\* ------------------------------------------------------------------------
\* Properties of CodeCommitter: the user's uncommitted work
\* ------------------------------------------------------------------------
\* a task with status success whose patch changes Y and applies, and
\* whose ID, title and description make a ref name and a commit command
PlainTaskOnY(tr) ==
    /\ tr.status = SUCCESS
    /\ ValidateTaskResult(tr) = NULL
    /\ ValidRefName(RefName("task", tr.ID, 0))
    /\ CommitCommandParses(tr)
    /\ tr.gitDiff # Undefined
    /\ PatchWellFormed(tr.gitDiff)
    /\ PatchFiles(tr.gitDiff) = {"Y"}

\* policy autoStash with a git stash push that works, the only change of
\* the working tree is to tracked file X, and the list is one task whose
\* patch changes Y
AutoStashScenario ==
    /\ ccIn.options.autoStash
    /\ ccIn.gitStashWorks
    /\ ccIn.repo.mods = {"X"}
    /\ ccIn.repo.untracked = {}
    /\ Len(ccIn.taskResults) = 1
    /\ PlainTaskOnY(ccIn.taskResults[1])

\* C21: under autoStash, with X modified and one task whose patch changes
\* Y, commitAllChanges() returns with the working tree dirty on X only and
\* with one new task branch whose commit has the change to Y and not the
\* change to X.
C21_AutoStashKeepsUserChange ==
    (ccPc = "returned" /\ AutoStashScenario) =>
        /\ repo.mods = {"X"}
        /\ repo.untracked = {}
        /\ Cardinality(TaskBranches) = 1
        /\ \A b \in TaskBranches :
              /\ "Y" \in repo.commits[repo.branches[b]].tree
              /\ "X" \notin repo.commits[repo.branches[b]].tree

C21_Witness ==
    /\ ccPc = "returned"
    /\ AutoStashScenario
    /\ repo.mods = {"X"}
    /\ \E b \in TaskBranches : repo.commits[repo.branches[b]].tree = {"Y"}

\* ------------------------------------------------------------------------
\* Properties of analyzeCodebase and main
\* ------------------------------------------------------------------------
\* analyzeCodebase() returned a task list
AnalyzerReturned == azPc = "settled" /\ azPromise.state = "resolved"

\* an entry with a non-empty id, title and description
WellFormedEntry(entry) == entry.ID # "" /\ entry.title # "" /\ entry.description # ""

\* C22: analyzeCodebase returns a task list only if its length is within
\* [minTasks, maxTasks] and every entry has a non-empty id, title and
\* description (and a numeric priority); otherwise it fails.
C22_ReturnedTasksAreValidated ==
    AnalyzerReturned =>
        /\ Len(azTasks) >= azIn.minTasks
        /\ Len(azTasks) <= azIn.maxTasks
        /\ \A i \in DOMAIN azTasks : WellFormedEntry(azTasks[i])

\* a solver of the manager has been constructed and its solve() called
SomeSolverStarted == \E t \in DOMAIN solvers : solvers[t].solve # "none"

\* C24: in main(), a task solver is started only after analyzeCodebase has
\* returned with the analyzer's container shut down; when analyzeCodebase
\* throws, no solver is started.
C24_AnalyzerBeforeSolvers ==
    /\ SomeSolverStarted =>
          /\ AnalyzerReturned
          /\ azContainer = "removed"
          /\ azShutdownCalls = 1
    /\ azPromise.state = "rejected" => (~SomeSolverStarted /\ mgrPc = "none")

C24_Witness ==
    /\ SomeSolverStarted
    /\ AnalyzerReturned
    /\ azContainer = "removed"

\* ------------------------------------------------------------------------
\* Properties of the JSON extractor
\* ------------------------------------------------------------------------
\* the extraction returned the object that was serialized
RoundTrip == txOut.ok /\ txOut.value = txIn.obj

NullNameGuarded ==
    {"runCommands", "runCommandAsync", "copyFileToContainer",
     "copyFilesToContainer", "copyFileFromContainer"}

NullNameErrors ==
    {"Container name is null, cannot run commands",
     "Container name is null, cannot copy file",
     "Container name is null, cannot copy files"}

\* C25: on a handle on which startContainer was never called, runCommands,
\* runCommandAsync, copyFileToContainer, copyFilesToContainer and
\* copyFileFromContainer each throw a 'Container name is null' error and
\* issue no docker command.
C25_NullNameFailsWithoutDocker ==
    (lastCall.op \in NullNameGuarded /\ ~lastCall.startedBefore)
        => /\ lastCall.outcome = "threw"
           /\ lastCall.message \in NullNameErrors
           /\ lastCall.docker = <<>>
           /\ runtime = lastCall.before

C25_Witness ==
    /\ lastCall.op = "copyFileToContainer"
    /\ ~lastCall.startedBefore
    /\ lastCall.outcome = "threw"

\* C26: copyFilesToContainer on a started handle with a local path that
\* does not exist throws 'Local path does not exist' having issued no
\* docker command, and the containers are as they were.
C26_MissingLocalPathFailsFirst ==
    (/\ lastCall.op = "copyFilesToContainer"
     /\ lastCall.startedBefore
     /\ ~lastCall.localPathExists)
        => /\ lastCall.outcome = "threw"
           /\ lastCall.message = "Local path does not exist"
           /\ lastCall.docker = <<>>
           /\ runtime = lastCall.before

C26_Witness ==
    /\ lastCall.op = "copyFilesToContainer"
    /\ ~lastCall.localPathExists
    /\ Exists(hName[lastCall.handle])
    /\ runtime[hName[lastCall.handle]].owner = lastCall.handle

\* C27: shutdownContainer always returns normally; after it no container
\* of the handle's name exists; called twice in a row, the second call
\* leaves the containers as the first left them; this includes a call
\* after a startContainer that threw.
C27_ShutdownIdempotentNeverFails ==
    lastCall.op = "shutdownContainer"
        => /\ lastCall.outcome = "returned"
           /\ ~Exists(hName[lastCall.handle])
           /\ (lastCall.prevOp = "shutdownContainer" /\ lastCall.prevHandle = lastCall.handle
                   => runtime = lastCall.before)

C27_Witness ==
    /\ lastCall.op = "shutdownContainer"
    /\ lastCall.prevOp = "shutdownContainer"
    /\ lastCall.prevHandle = lastCall.handle
    /\ lastCall.startedBefore
    /\ lastCall.outcome = "returned"

\* C28: startContainer(image, name) with a runnable image succeeds when a
\* container of the requested name already exists: the handle ends up with
\* a running container of its own.
C28_DuplicateNameTolerated ==
    (/\ lastCall.op = "startContainer"
     /\ lastCall.requested # NULL
     /\ lastCall.imageOk
     /\ lastCall.before[lastCall.requested].exists)
        => /\ lastCall.outcome = "returned"
           /\ Exists(hName[lastCall.handle])
           /\ runtime[hName[lastCall.handle]].owner = lastCall.handle

\* ------------------------------------------------------------------------
\* Properties of the recorded TaskResult
\* ------------------------------------------------------------------------
TerminalStatuses == {SUCCESS, SKIPPED, FAILURE}

\* what startTask pushes onto completedTasks once solve() has settled:
\* getResult() after a resolve, the record of the catch block after a reject
StartTaskRecord ==
    IF svPromise.state = "resolved"
    THEN taskResult
    ELSE CatchResult(svIn.task, svPromise.msg, clock)

\* C29: the TaskResult that startTask records has a terminal status
\* (success, skipped or failure) and a completedAt other than 0, whether
\* solve() resolved or rejected.
C29_RecordedResultIsTerminal ==
    svPromise.state \in {"resolved", "rejected"}
        => /\ StartTaskRecord.status \in TerminalStatuses
           /\ StartTaskRecord.completedAt # 0

C29_Witness ==
    /\ svPromise.state = "resolved"
    /\ StartTaskRecord.status = SKIPPED
    /\ StartTaskRecord.completedAt # 0

\* ------------------------------------------------------------------------
\* Properties of the task branches' baseline
\* ------------------------------------------------------------------------
\* the record of input i names a branch
HasBranch(i) == ccAcc.results[i].branchName \in DOMAIN repo.branches

TipOf(i) == repo.branches[ccAcc.results[i].branchName]

\* C30: every task branch starts at the anchor, and the commit made on the
\* branch of task i changes exactly the paths of task i's patch: nothing
\* of an earlier task, committed or failed, and nothing else that lay in
\* the working tree.
C30_BranchHoldsOnlyItsPatch ==
    \A i \in Processed :
        HasBranch(i) =>
            IF ccAcc.results[i].success
            THEN /\ repo.commits[TipOf(i)].parent = originalGitNode
                 /\ repo.commits[TipOf(i)].tree
                        = repo.commits[originalGitNode].tree \cup PatchFiles(ccIn.taskResults[i].gitDiff)
            ELSE TipOf(i) = originalGitNode

\* the same, for repositories without untracked files at the start
C30_OnlyItsPatchWithoutUntracked ==
    ccIn.repo.untracked = {} => C30_BranchHoldsOnlyItsPatch

\* ------------------------------------------------------------------------
\* Properties of the dirty-repository policies
\* ------------------------------------------------------------------------
\* C31: on a dirty working tree with autoStash and autoCommit both set,
\* handleDirtyGitRepo answers with the stash, and without any new commit,
\* exactly when git stash push works; a commit is made only when it fails.
C31_StashBeforeAutoCommit ==
    (/\ ccPc = "loop"
     /\ ccIn.options.autoStash /\ ccIn.options.autoCommit
     /\ ~IsGitRepoClean(CS))
        => LET h == HandleDirtyGitRepo(CS)
               commitMade == DOMAIN h.cs.repo.commits # DOMAIN repo.commits
           IN  /\ ccIn.gitStashWorks
                   => h.success /\ h.action = "stash" /\ h.cs.stashedChanges /\ ~commitMade
               /\ ~ccIn.gitStashWorks
                   => h.action # "stash" /\ ~h.cs.stashedChanges
                      /\ (h.success => h.action = "commit" /\ commitMade)

\* both policies set on a tree dirty on X: the first task was committed
\* after a stash, and main has not moved
C31_Witness ==
    /\ ccIdx > 1
    /\ ccIn.options.autoStash /\ ccIn.options.autoCommit
    /\ ccIn.repo.mods = {"X"}
    /\ ccAcc.results[1].success /\ ccAcc.results[1].branchName # NoBranch
    /\ stashedChanges
    /\ repo.branches[MainBranch] = originalGitNode

\* ------------------------------------------------------------------------
\* Properties of the analyzer's container
\* ------------------------------------------------------------------------
\* C32: when analyzeCodebase was called with shutdownContainer = true and
\* has settled, by return or by any of its throws, shutdownContainer has
\* been called on its handle and its container does not run.
C32_AnalyzerShutsDownOnEveryExit ==
    (azPc = "settled" /\ azIn.shutdownContainer)
        => /\ azShutdownCalls = 1
           /\ azContainer # "running"

\* the container ran, tasks.json did not parse, the container is removed
C32_Witness ==
    /\ azIn.shutdownContainer
    /\ azPromise = [state |-> "rejected", msg |-> <<"Error parsing tasks.json">>]
    /\ azShutdownCalls = 1
    /\ azContainer = "removed"

\* ------------------------------------------------------------------------
\* Properties of the user's uncommitted work
\* ------------------------------------------------------------------------
NoRecoveryPolicy ==
    /\ ~ccIn.options.autoStash
    /\ ~ccIn.options.autoCommit
    /\ ~ccIn.options.ignoreUntracked

\* C33: with no recovery policy and tracked files modified at the start,
\* commitAllChanges() returns with the user's modifications and untracked
\* files in the working tree as they were.
C33_DirtyTreeKeptWithoutPolicy ==
    (ccPc = "returned" /\ NoRecoveryPolicy /\ ccIn.repo.mods # {})
        => /\ repo.mods = ccIn.repo.mods
           /\ repo.untracked = ccIn.repo.untracked

\* the same for the lists in which every task is a valid one with a blank patch
C33_KeptWhenEveryTaskIsSkipped ==
    (/\ ccPc = "returned" /\ NoRecoveryPolicy /\ ccIn.repo.mods # {}
     /\ \A i \in DOMAIN ccIn.taskResults :
           /\ ValidateTaskResult(ccIn.taskResults[i]) = NULL
           /\ NoGitDiff(ccIn.taskResults[i].gitDiff))
        => /\ repo.mods = ccIn.repo.mods
           /\ repo.untracked = ccIn.repo.untracked

\* C34: with ignoreUntracked and untracked files at the start, no task
\* branch's commit contains one of them and commitAllChanges() returns
\* with them untracked in the working tree.
C34_UntrackedFilesLeftAlone ==
    (ccPc = "returned" /\ ccIn.options.ignoreUntracked /\ ccIn.repo.untracked # {})
        => /\ repo.untracked = ccIn.repo.untracked
           /\ \A b \in TaskBranches :
                 repo.commits[repo.branches[b]].tree \cap ccIn.repo.untracked = {}

\* the same for the lists in which no task reaches git add
C34_LeftAloneWhenNothingIsCommitted ==
    (/\ ccPc = "returned" /\ ccIn.options.ignoreUntracked /\ ccIn.repo.untracked # {}
     /\ \A i \in DOMAIN ccIn.taskResults :
           /\ ValidateTaskResult(ccIn.taskResults[i]) = NULL
           /\ NoGitDiff(ccIn.taskResults[i].gitDiff))
        => /\ repo.untracked = ccIn.repo.untracked
           /\ \A b \in TaskBranches :
                 repo.commits[repo.branches[b]].tree \cap ccIn.repo.untracked = {}

\* the stash entries below the ones pushed since the start
OlderStash(r, n) ==
    IF Len(r.stash) < n THEN <<>>
    ELSE SubSeq(r.stash, Len(r.stash) - n + 1, Len(r.stash))

\* C35: in every state of commitAllChanges() the stash entries that existed
\* before the call are still on the stash list, in their order, below
\* whatever the call pushed, and their files have not been applied to the
\* working tree.
C35_OlderStashEntriesKept ==
    ccPc \in {"loop", "returned"}
        => /\ Len(repo.stash) >= Len(ccIn.repo.stash)
           /\ OlderStash(repo, Len(ccIn.repo.stash)) = ccIn.repo.stash
           /\ \A k \in DOMAIN ccIn.repo.stash :
                 ccIn.repo.stash[k].files \cap (repo.mods \cup repo.untracked) = {}

\* the same for the runs in which git stash push saved something each time
\* stashChanges set the flag
C35_KeptWhenTheStashSavedSomething ==
    (ccPc \in {"loop", "returned"} /\ (ccIn.options.autoStash => ccIn.repo.mods # {}))
        => /\ Len(repo.stash) >= Len(ccIn.repo.stash)
           /\ OlderStash(repo, Len(ccIn.repo.stash)) = ccIn.repo.stash

\* ------------------------------------------------------------------------
\* Properties of the activeTasks map
\* ------------------------------------------------------------------------
\* the solvers whose solve() is in flight
RunningSolvers == {t \in DOMAIN solvers : solvers[t].solve = "pending"}

\* C36: while start() runs, activeTasks.size is the number of solvers
\* whose solve() has been started and has not settled.
C36_ActiveTasksCountsRunningSolvers ==
    mgrPc \in {"inner", "sleep", "done"}
        => Cardinality(DOMAIN activeTasks) = Cardinality(RunningSolvers)

\* the same for the task lists in which every ID occurs once
C36_CountsRunningSolversOfDistinctIDs ==
    (/\ mgrPc \in {"inner", "sleep", "done"}
     /\ \A a, b \in DOMAIN tasks : tasks[a].ID = tasks[b].ID => a = b)
        => Cardinality(DOMAIN activeTasks) = Cardinality(RunningSolvers)

\* ------------------------------------------------------------------------
\* Properties of the recorded TaskResult's identity
\* ------------------------------------------------------------------------
\* C37: the TaskResult that startTask records carries the ID and the
\* priority of the task the solver was constructed with, whether solve()
\* resolved, with whatever the agent's report held, or rejected.
C37_RecordedResultKeepsTaskIdentity ==
    svPromise.state \in {"resolved", "rejected"}
        => /\ StartTaskRecord.ID = svIn.task.ID
           /\ StartTaskRecord.priority = svIn.task.priority

\* solve() resolved after the agent's report replaced title and status
C37_Witness ==
    /\ svPromise.state = "resolved"
    /\ taskResult.title = "agent title"
    /\ taskResult.status = SUCCESS
    /\ StartTaskRecord.ID = svIn.task.ID

\* in the scheduler: the records are, with multiplicity, the ID and priority
\* pairs of the tasks whose solver has settled
C37_RecordsMatchSettledTasks ==
    \A task \in Task :
        Cardinality({k \in DOMAIN completedTasks :
                        completedTasks[k].ID = task.ID /\ completedTasks[k].priority = task.priority})
          = Cardinality({t \in DOMAIN solvers :
                            /\ solvers[t].solve \in {"resolved", "rejected"}
                            /\ tasks[t] = task})

\* ------------------------------------------------------------------------
\* Properties of container ownership
\* ------------------------------------------------------------------------
\* the containers the last call removed
RemovedByLastCall ==
    {n \in ContainerNames : lastCall.before[n].exists /\ ~runtime[n].exists}

\* C38: a shutdownContainer() removes only containers that its own handle
\* created, also when the handle's startContainer had failed.
C38_ShutdownRemovesOwnContainerOnly ==
    lastCall.op = "shutdownContainer"
        => \A n \in RemovedByLastCall : lastCall.before[n].owner = lastCall.handle

\* the same when every handle was started without a requested name
C38_OwnContainerOnlyUnderRandomNames ==
    (/\ lastCall.op = "shutdownContainer"
     /\ \A h \in Handles : hStarted[h] => hName[h] = RandomName(h))
        => \A n \in RemovedByLastCall : lastCall.before[n].owner = lastCall.handle

\* ------------------------------------------------------------------------
\* Properties of processRequirement
\* ------------------------------------------------------------------------
\* C39: processRequirement does not throw; when it has settled it has
\* returned a context in state completed, failed or skipped with endTime
\* set; the state completed implies a merge request, and a merge request
\* implies that executeTask returned a result with success = true.
C39_ProcessRequirementSettlesInTerminalState ==
    /\ wfSettled # "threw"
    /\ wfPc = "done"
          => /\ wfSettled = "returned"
             /\ context.state \in {"completed", "failed", "skipped"}
             /\ context.endTime
    /\ wfPc \in {"matching", "optimizing", "creating_issue", "executing", "done"}
          => /\ context.state = "completed" => context.mergeRequest
             /\ context.mergeRequest
                   => context.taskResult.defined /\ context.taskResult.success

\* the issue was created, executeTask returned, the call returned failed
C39_Witness ==
    /\ wfSettled = "returned"
    /\ context.state = "failed"
    /\ context.issue
    /\ context.taskResult.assigned
    /\ context.endTime

====
